---- MODULE Spec2Model ----
(***************************************************************************)
(* LLM request governance engine of GreedyAnalytics                        *)
(* (src/analytics_llm/backend): the per-tenant token window limiter, the   *)
(* budget ledger, the cost-based router with retries and failover, and the *)
(* query orchestrator that strings them together.                          *)
(*                                                                         *)
(* Money is counted in micro-dollars (1e-6 USD, the precision estimate_cost*)
(* rounds to), time in seconds, backoff sleeps in hundredths of a second.  *)
(***************************************************************************)
EXTENDS Integers, Sequences, FiniteSets, TLC

VARIABLES
    clock,          \* time.time(), whole seconds
    settings,       \* core/config.py Settings: the fields the engine reads
    LLM_PRIORITY,   \* llm/router.py: the static provider list, in order
    memory_up,      \* whether the vector and session stores answer
    _usage,         \* TokenBudgetLimiter._usage: tenant -> window record
    _lock,          \* TokenBudgetLimiter._lock: its holder, or NoHolder
    daily_budgets,  \* CostOptimizer.daily_budgets: tenant -> allowance
    usage_cache,    \* CostOptimizer.usage_cache: tenant -> spend
    pc,             \* per execution context: where it stands in the code
    lim,            \* per context: the frame of TokenBudgetLimiter.allow
    rt,             \* per context: the frame of LLMRouter.route_request
    orch,           \* per context: the frame of execute_query
    winAdmitted,    \* history: tokens admitted per tenant since the window record was (re)started
    lastAdmitAt,    \* history: time of the last admission per tenant
    nQueries,       \* history: number of execute_query calls started
    led,            \* per context: the frame of a direct call of the ledger
    nCalls,         \* history: number of direct calls of a component started
    redis_client,   \* core/rate_limit.py r: the connection made at import, or "None"
    redis_up,       \* whether the shared store answers now
    redis_store,    \* the shared store: key -> [count, expires_at]
    memory_cache,   \* RateLimiter.memory_cache: key -> count
    rl,             \* per context: the frame of RateLimiter.allow_request
    rlStarted,      \* history: allow_request calls started per key
    rlWrites,       \* history: fallback increments written per key
    rlAdmitted,     \* history: calls the fallback counter admitted per key
    rlClean,        \* history: per key, the calls so far ran one after another, in one window, without a failure
    rlArmedAt,      \* history: per key, when the call that opened the current window returned
    sdk,            \* per provider: whether its client library was imported
    api_key,        \* per provider: whether settings hold a key for it
    ad,             \* per context: the frame of a provider adapter's run
    fn              \* per context: the frame of a call of a cost function

\* what no operation of the engine writes
env == <<settings, LLM_PRIORITY, memory_up>>

\* what the query path (orchestrator, limiter, router) does not touch: the
\* state of the components when they are called on their own
rlState == <<redis_client, redis_up, redis_store, memory_cache, rl,
             rlStarted, rlWrites, rlAdmitted, rlClean, rlArmedAt>>

adState == <<sdk, api_key, ad>>

apart == <<led, nCalls, rlState, adState, fn>>

vars == <<clock, settings, LLM_PRIORITY, memory_up, _usage, _lock, daily_budgets,
          usage_cache, pc, lim, rt, orch, winAdmitted, lastAdmitAt, nQueries,
          led, nCalls, redis_client, redis_up, redis_store, memory_cache, rl,
          rlStarted, rlWrites, rlAdmitted, rlClean, rlArmedAt, sdk, api_key, ad, fn>>

(***************************************************************************)
(* Bounds of the model                                                     *)
(***************************************************************************)
MaxClock == 60          \* the clock stops advancing here
TickSeconds == 60        \* granularity of the clock
MaxQueries == 2          \* execute_query calls started in one behaviour
MaxCalls == 3            \* direct calls of a component started in one behaviour

Procs == {"p1", "p2"}    \* concurrent execution contexts
Tenants == {"default", "acme"}
NoHolder == "nobody"
Never == 0 - 1             \* "no admission yet"

\* requested_tokens of direct allow() calls; the largest is more than the
\* limit of the model's settings
TokenInputs == {0, 1000, 3000}

(***************************************************************************)
(* core/config.py                                                          *)
(***************************************************************************)
DEFAULT_MAX_TOKENS_PER_MIN == 50000
DEFAULT_LLM_MAX_RETRIES == 3
DEFAULT_OPENAI_MAX_TOKENS == 2000
DEFAULT_MAX_REQUESTS_PER_MINUTE == 100

\* The settings are read from the environment at import time; the model
\* starts from the defaults or from a small override of each.
Settings ==
    [MAX_TOKENS_PER_MIN : {2000},
     LLM_MAX_RETRIES : {0, DEFAULT_LLM_MAX_RETRIES},
     OPENAI_MAX_TOKENS : {200, 500, DEFAULT_OPENAI_MAX_TOKENS},
     MAX_REQUESTS_PER_MINUTE : {DEFAULT_MAX_REQUESTS_PER_MINUTE}]

(***************************************************************************)
(* core/cost_controller.py: TokenBudgetLimiter                             *)
(***************************************************************************)
window_seconds == 60

\* no record for the tenant in self._usage
NoRecord == [window_start |-> Never, tokens_used |-> 0]

\* self._usage.get(tenant_id), NoRecord standing for None
RecordOf(tenant_id) ==
    IF tenant_id \in DOMAIN _usage THEN _usage[tenant_id] ELSE NoRecord

NoLimFrame == [tenant_id |-> "", tokens |-> 0, limit |-> 0, now |-> 0,
               result |-> FALSE, caller |-> "", was_full |-> FALSE,
               before |-> NoRecord]

\* the expiry test off by one: a window is kept at exactly window_seconds
NeedsReset_Strict(tenant_id, now) ==
    \/ tenant_id \notin DOMAIN _usage
    \/ now - _usage[tenant_id].window_start > window_seconds

\* `not entry or now - entry["window_start"] >= self.window_seconds`
NeedsReset(tenant_id, now) ==
    \/ tenant_id \notin DOMAIN _usage
    \/ now - _usage[tenant_id].window_start >= window_seconds

\* self._usage[tenant_id] = rec
SetUsage(tenant_id, rec) ==
    [x \in DOMAIN _usage \cup {tenant_id} |->
        IF x = tenant_id THEN rec ELSE _usage[x]]

\* now = time.time(), taken before the lock
AllowNow(p) ==
    /\ pc[p] = "allow_now"
    /\ lim' = [lim EXCEPT ![p].now = clock]
    /\ pc' = [pc EXCEPT ![p] = "allow_lock"]
    /\ UNCHANGED <<clock, env, apart, _usage, _lock, daily_budgets,
                   usage_cache, rt, orch, winAdmitted, lastAdmitAt, nQueries>>

\* the critical section without its lock
LockFree_NoLock(p) == TRUE

\* with self._lock: (entering)
LockFree(p) == _lock = NoHolder

AllowAcquire(p) ==
    /\ pc[p] = "allow_lock"
    /\ LockFree(p)
    /\ _lock' = p
    /\ pc' = [pc EXCEPT ![p] = "allow_read"]
    /\ UNCHANGED <<clock, env, apart, _usage, daily_budgets,
                   usage_cache, lim, rt, orch, winAdmitted, lastAdmitAt, nQueries>>

\* entry = self._usage.get(tenant_id); reset when absent or expired
AllowRead(p) ==
    /\ pc[p] = "allow_read"
    /\ LET t == lim[p].tenant_id
           \* history: the record found would not have had room for this request
           full == /\ t \in DOMAIN _usage
                   /\ _usage[t].tokens_used + lim[p].tokens > lim[p].limit
           \* the window of the record is over (or there is none yet)
           over == \/ t \notin DOMAIN _usage
                   \/ lim[p].now >= _usage[t].window_start + window_seconds
       IN /\ lim' = [lim EXCEPT ![p].was_full = full,
                               \* history: the record as the call found it
                               ![p].before = RecordOf(t)]
          /\ IF NeedsReset(t, lim[p].now)
               THEN _usage' = SetUsage(t, [window_start |-> lim[p].now, tokens_used |-> 0])
               ELSE _usage' = _usage
          /\ winAdmitted' = IF over THEN [winAdmitted EXCEPT ![t] = 0] ELSE winAdmitted
    /\ pc' = [pc EXCEPT ![p] = "allow_check"]
    /\ UNCHANGED <<clock, env, apart, _lock, daily_budgets,
                   usage_cache, rt, orch, lastAdmitAt, nQueries>>

\* the check off by one: a request that fills the window exactly is denied
OverLimit_OffByOne(p) ==
    _usage[lim[p].tenant_id].tokens_used + lim[p].tokens >= lim[p].limit

\* if entry["tokens_used"] + tokens > limit: return False
OverLimit(p) ==
    _usage[lim[p].tenant_id].tokens_used + lim[p].tokens > lim[p].limit

AllowCheck(p) ==
    /\ pc[p] = "allow_check"
    /\ IF OverLimit(p)
         THEN /\ lim' = [lim EXCEPT ![p].result = FALSE]
              /\ _lock' = IF _lock = p THEN NoHolder ELSE _lock
              /\ pc' = [pc EXCEPT ![p] = "allow_ret"]
         ELSE /\ pc' = [pc EXCEPT ![p] = "allow_incr"]
              /\ UNCHANGED <<lim, _lock>>
    /\ UNCHANGED <<clock, env, apart, _usage, daily_budgets,
                   usage_cache, rt, orch, winAdmitted, lastAdmitAt, nQueries>>

\* the admission not counted against the window
Incremented_Unreserved(p) == _usage

\* entry["tokens_used"] += tokens
Incremented(p) ==
    LET t == lim[p].tenant_id
    IN [_usage EXCEPT ![t].tokens_used = @ + lim[p].tokens]

\* entry["tokens_used"] += tokens; return True (leaving the with block)
AllowIncr(p) ==
    /\ pc[p] = "allow_incr"
    /\ _usage' = Incremented(p)
    /\ lim' = [lim EXCEPT ![p].result = TRUE]
    /\ _lock' = IF _lock = p THEN NoHolder ELSE _lock
    /\ winAdmitted' = [winAdmitted EXCEPT ![lim[p].tenant_id] = @ + lim[p].tokens]
    /\ lastAdmitAt' = [lastAdmitAt EXCEPT ![lim[p].tenant_id] = clock]
    /\ pc' = [pc EXCEPT ![p] = "allow_ret"]
    /\ UNCHANGED <<clock, env, apart, daily_budgets,
                   usage_cache, rt, orch, nQueries>>

\* a caller of token_budget_limiter.allow(tenant_id, tokens, limit) outside
\* the orchestrator (the boundary layer)
AllowCall(p, tenant_id, tokens) ==
    /\ pc[p] = "idle"
    /\ lim' = [lim EXCEPT ![p] = [NoLimFrame EXCEPT
                  !.tenant_id = tenant_id, !.tokens = tokens,
                  !.limit = settings.MAX_TOKENS_PER_MIN, !.caller = "direct"]]
    /\ pc' = [pc EXCEPT ![p] = "allow_now"]
    /\ UNCHANGED <<clock, env, apart, _usage, _lock, daily_budgets,
                   usage_cache, rt, orch, winAdmitted, lastAdmitAt, nQueries>>

\* the direct caller takes the boolean and goes on
AllowReturn(p) ==
    /\ pc[p] = "allow_ret"
    /\ lim[p].caller = "direct"
    /\ pc' = [pc EXCEPT ![p] = "idle"]
    /\ lim' = [lim EXCEPT ![p] = NoLimFrame]
    /\ UNCHANGED <<clock, env, apart, _usage, _lock, daily_budgets,
                   usage_cache, rt, orch, winAdmitted, lastAdmitAt, nQueries>>

\* time passes
Tick ==
    /\ clock + TickSeconds <= MaxClock
    /\ clock' = clock + TickSeconds
    /\ UNCHANGED <<env, apart, _usage, _lock, daily_budgets,
                   usage_cache, pc, lim, rt, orch, winAdmitted, lastAdmitAt, nQueries>>

(***************************************************************************)
(* Python dicts are functions on their keys                                *)
(***************************************************************************)
\* d.get(k, default)
Get(d, k, default) == IF k \in DOMAIN d THEN d[k] ELSE default

\* d[k] = v
Put(d, k, v) == [x \in DOMAIN d \cup {k} |-> IF x = k THEN v ELSE d[x]]

(***************************************************************************)
(* core/cost_controller.py: the cost model                                 *)
(***************************************************************************)
\* TOKEN_COSTS, in micro-dollars per 1K tokens
TOKEN_COSTS ==
    [x \in {"gpt-4", "gpt-4-turbo", "gpt-3.5-turbo", "gemma", "gemini-pro"} |->
        CASE x = "gpt-4"         -> [input |-> 30000, output |-> 60000]
          [] x = "gpt-4-turbo"   -> [input |-> 10000, output |-> 30000]
          [] x = "gpt-3.5-turbo" -> [input |-> 500,   output |-> 1500]
          [] x = "gemma"         -> [input |-> 100,   output |-> 200]
          [] x = "gemini-pro"    -> [input |-> 250,   output |-> 500]]

UNKNOWN_MODEL_COST == 10000      \* return 0.01
DEFAULT_TOKEN_COUNT == 1000      \* token_count: int = 1000

\* round(n / d) to the nearest integer, ties to even, as round(x, 6) does on
\* a value counted in micro-dollars
RoundDiv(n, d) ==
    LET q == n \div d
        r == n % d
    IN IF 2 * r < d THEN q
       ELSE IF 2 * r > d THEN q + 1
       ELSE IF q % 2 = 0 THEN q ELSE q + 1

\* an estimate that follows the time of day
estimate_cost_Surge(model, token_count) ==
    IF model \notin DOMAIN TOKEN_COSTS
      THEN UNKNOWN_MODEL_COST + clock
      ELSE RoundDiv(token_count * (6 * TOKEN_COSTS[model].input
                                   + 4 * TOKEN_COSTS[model].output), 10000) + clock

\* estimate_cost(task, model, token_count): 60% input, 40% output
estimate_cost(model, token_count) ==
    IF model \notin DOMAIN TOKEN_COSTS
      THEN UNKNOWN_MODEL_COST
      ELSE RoundDiv(token_count * (6 * TOKEN_COSTS[model].input
                                   + 4 * TOKEN_COSTS[model].output), 10000)

(***************************************************************************)
(* llm/router.py                                                           *)
(***************************************************************************)
GEMMA_MAX_COST == 2000           \* "max_cost": 0.002
OPENAI_MAX_COST == 20000         \* "max_cost": 0.02

\* LLM_PRIORITY as shipped, and with ceilings lowered to 0 by configuration
PriorityLists ==
    { << [name |-> "gemma", max_cost |-> g], [name |-> "openai", max_cost |-> o] >> :
        g \in {0, GEMMA_MAX_COST}, o \in {0, OPENAI_MAX_COST} }

\* what provider.run(payload) can do, seen from the router: return a
\* non-empty dict, return an empty dict, return something that is no dict,
\* or raise
RunOutcomes == {"dict", "empty", "nondict", "raise"}

\* jitter of random.uniform(0, 0.25), in hundredths of a second: both ends
MAX_JITTER == 25
Jitters == {0, MAX_JITTER}

\* the dict a provider adapter returns for an answer
ProviderResponse(llm_name) ==
    [response |-> "answer", model |-> llm_name, tokens_used |-> 100,
     confidence |-> IF llm_name = "gemma" THEN 85 ELSE 90,
     provider |-> IF llm_name = "gemma" THEN "gemini" ELSE llm_name]

\* the terminal response without its error code
ROUTING_FAILED_NoErrorCode ==
    [response |-> "LLM routing failed. Please retry later.", model |-> "none",
     tokens_used |-> 0, confidence |-> 0, provider |-> "none"]

\* the terminal response of route_request
ROUTING_FAILED ==
    [response |-> "LLM routing failed. Please retry later.", model |-> "none",
     tokens_used |-> 0, confidence |-> 0, provider |-> "none",
     error |-> "LLM_ROUTING_FAILED"]

NoResult == [provider |-> "unset"]

NoRouteFrame ==
    [caller |-> "", idx |-> 0, estimated_cost |-> 0, attempt |-> 0,
     result |-> NoResult,
     \* the payload dict of the caller, and (history) what it held when
     \* route_request was entered
     payload |-> << >>, payload_in |-> << >>,
     \* history of this route_request
     tried |-> << >>, skipped |-> {}, exhausted |-> {}, won |-> "",
     \* history of the current _call_with_retries
     runs |-> 0, fails |-> 0, nsleeps |-> 0, sleeps_ok |-> TRUE]

\* max_retries = max(1, settings.LLM_MAX_RETRIES)
max_retries == IF settings.LLM_MAX_RETRIES > 1 THEN settings.LLM_MAX_RETRIES ELSE 1

\* the cost check dropped: no provider is skipped
TooExpensive_Never(estimated_cost, max_cost) == FALSE

\* if estimated_cost > max_cost: continue
TooExpensive(estimated_cost, max_cost) == estimated_cost > max_cost

\* a failed provider is tried again instead of the next one
NextProvider_Same(idx) == idx

\* the for loop's next provider
NextProvider(idx) == idx + 1

\* the last attempt recognised one attempt late
LastAttempt_Late(attempt) == attempt >= max_retries

\* if attempt >= max_retries - 1: raise
LastAttempt(attempt) == attempt >= max_retries - 1

\* sleep_for = (2 ** attempt) + random.uniform(0, 0.25)
SleepFor(attempt, jitter) == 100 * (2 ^ attempt) + jitter

\* history: a sleep of the schedule, 2^attempt plus a jitter in [0, 0.25]
OnSchedule(sleep_for, attempt) ==
    /\ sleep_for >= 100 * (2 ^ attempt)
    /\ sleep_for <= 100 * (2 ^ attempt) + MAX_JITTER

\* the head of the for loop: the next provider is skipped on cost, handed to
\* _call_with_retries, or the list is over and the terminal response returned
RouteNext(p) ==
    /\ pc[p] = "route_loop"
    /\ LET f == rt[p] IN
       IF f.idx > Len(LLM_PRIORITY)
         THEN /\ rt' = [rt EXCEPT ![p].result = ROUTING_FAILED]
              /\ pc' = [pc EXCEPT ![p] = "route_ret"]
         ELSE LET llm_config == LLM_PRIORITY[f.idx]
                  cost == estimate_cost(llm_config.name, DEFAULT_TOKEN_COUNT)
              IN IF TooExpensive(cost, llm_config.max_cost)
                   THEN /\ rt' = [rt EXCEPT ![p].idx = NextProvider(f.idx),
                                            ![p].skipped = @ \cup {llm_config.name}]
                        /\ pc' = pc
                   ELSE /\ rt' = [rt EXCEPT ![p].estimated_cost = cost,
                                            ![p].attempt = 0,
                                            ![p].tried = Append(@, llm_config.name),
                                            ![p].runs = 0, ![p].fails = 0,
                                            ![p].nsleeps = 0,
                                            ![p].sleeps_ok = TRUE]
                        /\ pc' = [pc EXCEPT ![p] = "retry_loop"]
    /\ UNCHANGED <<clock, env, apart, _usage, _lock, daily_budgets,
                   usage_cache, lim, orch, winAdmitted, lastAdmitAt, nQueries>>

\* one pass of the retry loop: provider.run(payload) and what follows it, up
\* to the sleep, the return or the move to the next provider
CallRun(p, outcome) ==
    /\ pc[p] = "retry_loop"
    /\ rt[p].caller # "shipped"
    /\ LET f == rt[p]
           name == LLM_PRIORITY[f.idx].name
       IN CASE outcome = "dict" ->
                 \* result["estimated_cost"] = estimated_cost; return result
                 /\ rt' = [rt EXCEPT ![p].runs = @ + 1, ![p].won = name,
                              ![p].result = Put(ProviderResponse(name),
                                                "estimated_cost", f.estimated_cost)]
                 /\ pc' = [pc EXCEPT ![p] = "route_ret"]
            [] outcome = "empty" ->
                 \* if not result: raise RuntimeError("LLM_EMPTY_RESPONSE"); continue
                 /\ rt' = [rt EXCEPT ![p].runs = @ + 1,
                                     ![p].exhausted = @ \cup {name},
                                     ![p].idx = NextProvider(f.idx)]
                 /\ pc' = [pc EXCEPT ![p] = "route_loop"]
            [] outcome \in {"nondict", "raise"} ->
                 IF LastAttempt(f.attempt)
                   THEN \* raise; route_request logs and continues
                        /\ rt' = [rt EXCEPT ![p].runs = @ + 1, ![p].fails = @ + 1,
                                            ![p].exhausted = @ \cup {name},
                                            ![p].idx = NextProvider(f.idx)]
                        /\ pc' = [pc EXCEPT ![p] = "route_loop"]
                   ELSE /\ rt' = [rt EXCEPT ![p].runs = @ + 1, ![p].fails = @ + 1]
                        /\ pc' = [pc EXCEPT ![p] = "retry_sleep"]
    \* history: this execute_query has contacted a provider
    /\ orch' = IF rt[p].caller = "orch"
                 THEN [orch EXCEPT ![p].contacted = TRUE]
                 ELSE orch
    /\ UNCHANGED <<clock, env, apart, _usage, _lock, daily_budgets,
                   usage_cache, lim, winAdmitted, lastAdmitAt, nQueries>>

\* time.sleep(sleep_for), then the next attempt
BackoffSleep(p, jitter) ==
    /\ pc[p] = "retry_sleep"
    /\ rt' = [rt EXCEPT ![p].nsleeps = @ + 1,
                        ![p].sleeps_ok =
                            @ /\ OnSchedule(SleepFor(rt[p].attempt, jitter), rt[p].attempt),
                        ![p].attempt = @ + 1]
    /\ pc' = [pc EXCEPT ![p] = "retry_loop"]
    /\ UNCHANGED <<clock, env, apart, _usage, _lock, daily_budgets,
                   usage_cache, lim, orch, winAdmitted, lastAdmitAt, nQueries>>

RouterStep(p) ==
    \/ RouteNext(p)
    \/ \E outcome \in RunOutcomes : CallRun(p, outcome)
    \/ \E jitter \in Jitters : BackoffSleep(p, jitter)

\* the payloads and contexts route_request is called with directly: the
\* payload of a 12-character query, no context or one with a key of the user
Payloads == { [prompt_len |-> 32, temperature |-> 50, max_tokens |-> 1000] }
RouterContexts == { << >>, [gemini_api_key |-> "user-key"] }

\* route_request up to its loop: `if gemini_key: payload["gemini_api_key"] =
\* gemini_key`, on the dict of the caller
PayloadAtEntry(payload, context) ==
    LET gemini_key == Get(context, "gemini_api_key", "")
    IN IF gemini_key # "" THEN Put(payload, "gemini_api_key", gemini_key)
       ELSE payload

\* a caller of route_request outside the orchestrator (route_llm)
RouteCall(p, payload, context) ==
    /\ pc[p] = "idle"
    /\ rt' = [rt EXCEPT ![p] = [NoRouteFrame EXCEPT
                 !.caller = "direct", !.idx = 1,
                 !.payload = PayloadAtEntry(payload, context),
                 !.payload_in = payload]]
    /\ pc' = [pc EXCEPT ![p] = "route_loop"]
    /\ UNCHANGED <<clock, env, apart, _usage, _lock, daily_budgets,
                   usage_cache, lim, orch, winAdmitted, lastAdmitAt, nQueries>>

\* the direct caller takes the response
RouteReturn(p) ==
    /\ pc[p] = "route_ret"
    /\ rt[p].caller = "direct"
    /\ rt' = [rt EXCEPT ![p] = NoRouteFrame]
    /\ pc' = [pc EXCEPT ![p] = "idle"]
    /\ UNCHANGED <<clock, env, apart, _usage, _lock, daily_budgets,
                   usage_cache, lim, orch, winAdmitted, lastAdmitAt, nQueries>>

(***************************************************************************)
(* core/cost_controller.py: model selection and the budget ledger          *)
(***************************************************************************)
DEFAULT_MAX_BUDGET == 50000          \* max_budget: float = 0.05
DEFAULT_DAILY_BUDGET == 100000000    \* $100 default

quality_tiers ==
    [x \in {"low", "medium", "high"} |->
        CASE x = "low"    -> <<"gemma", "gpt-3.5-turbo">>
          [] x = "medium" -> <<"gemini-pro", "gpt-3.5-turbo", "gpt-4-turbo">>
          [] x = "high"   -> <<"gpt-4", "gpt-4-turbo">>]

\* select_optimal_model(task, max_budget, required_quality): the first
\* candidate of the tier within budget, else "gemma"
select_optimal_model(max_budget, required_quality) ==
    LET candidates == Get(quality_tiers, required_quality, quality_tiers["medium"])
        fits == {i \in 1..Len(candidates) :
                    estimate_cost(candidates[i], DEFAULT_TOKEN_COUNT) <= max_budget}
    IN IF fits = {} THEN "gemma"
       ELSE candidates[CHOOSE i \in fits : \A j \in fits : i <= j]

\* estimate_tokens(text), on the length of the text
estimate_tokens(len) ==
    IF len = 0 THEN 0
    ELSE IF len \div 4 > 1 THEN len \div 4 ELSE 1

\* CostOptimizer.check_budget(tenant_id, requested_cost)
check_budget(tenant_id, requested_cost) ==
    LET daily_budget == Get(daily_budgets, tenant_id, DEFAULT_DAILY_BUDGET)
        current_usage == Get(usage_cache, tenant_id, 0)
    IN current_usage + requested_cost <= daily_budget

\* update_usage storing the cost instead of the sum
NewUsage_CostOnly(current, cost) == cost

\* CostOptimizer.update_usage: what is stored for the tenant
NewUsage(current, cost) == current + cost

(***************************************************************************)
(* agents/orchestrator.py                                                  *)
(***************************************************************************)
PLAN_PREFIX_LEN == 20     \* len("Analyze and answer: ")

\* "max_tokens": min(settings.OPENAI_MAX_TOKENS, 1000)
payload_max_tokens ==
    IF settings.OPENAI_MAX_TOKENS < 1000 THEN settings.OPENAI_MAX_TOKENS ELSE 1000

\* lengths of the query texts submitted
QueryLens == {12}
\* the context dicts queries come with: an empty one (the legacy callers)
\* and a full one
Contexts == { << >>, [user_id |-> "u1", tenant_id |-> "acme"] }

\* a usage a long-running process reaches (9999 answers billed at the cost of
\* "openai" and 68 at the cost of "gemma"): one more query fits the default
\* allowance, the one after it does not
NearlySpent ==
    9999 * estimate_cost("openai", DEFAULT_TOKEN_COUNT)
    + 68 * estimate_cost("gemma", DEFAULT_TOKEN_COUNT)
\* the usage after n answers of "gemma", each billed by the router at the
\* estimate for the default token count
GemmaBills(n) == n * estimate_cost("gemma", DEFAULT_TOKEN_COUNT)

\* a usage that leaves 0.00024 dollars of the default allowance: room for one
\* more bill of "gemma" and not for two
RoomForOne == GemmaBills(714284)

\* a usage that leaves 0.0001 dollars of the default allowance: less than one
\* bill of "gemma"
AlmostSpent == GemmaBills(714285)

InitialLedgers ==
    { << >>, [t \in {"acme"} |-> NearlySpent], [t \in {"acme"} |-> RoomForOne],
      [t \in {"acme"} |-> AlmostSpent] }

\* None, for the numeric fields of a dict
None == 0 - 1

TOKEN_DENIED ==
    [answer |-> "Token budget exceeded. Please retry later.", confidence |-> 0,
     error |-> "TOKEN_BUDGET_EXCEEDED"]

COST_DENIED ==
    [answer |-> "Cost budget exceeded. Please retry later.", confidence |-> 0,
     error |-> "COST_BUDGET_EXCEEDED"]

\* the dict of the except branch of execute_query
DEGRADED ==
    [answer |-> "I encountered an error processing your query. Please try again.",
     confidence |-> 0, error |-> "str(e)"]

NoEnvelope == [answer |-> "unset"]

NoOrchFrame ==
    [user_id |-> "None", tenant_id |-> "", prompt_len |-> 0,
     estimated_tokens |-> 0, estimated_cost |-> 0, current |-> 0,
     result |-> NoResult, envelope |-> NoEnvelope,
     gemini_api_key |-> "",
     \* history of this execute_query
     stopped_by |-> "", admitted |-> FALSE, budget_ok |-> FALSE,
     contacted |-> FALSE, billed |-> FALSE, faulted |-> FALSE]

\* _create_execution_plan(query, context)
Plan(prompt_len) ==
    << [step |-> 1, action |-> "analyze_query", description_len |-> prompt_len] >>

\* the dict execute_query returns after _store_result
Envelope(result, plan) ==
    [answer |-> Get(result, "answer", "None"),
     confidence |-> Get(result, "confidence", 80),
     steps |-> plan,
     metadata |-> [model |-> Get(result, "model", "None"),
                   tokens_used |-> Get(result, "tokens_used", None),
                   execution_time_ms |-> Get(result, "execution_time_ms", None)]]

\* the dict _execute_plan returns after the router answered
PlanResult(result) ==
    [answer |-> Get(result, "response", "None"),
     confidence |-> Get(result, "confidence", None),
     model |-> Get(result, "model", "None"),
     tokens_used |-> Get(result, "tokens_used", None),
     execution_time_ms |-> 100]

\* execute_query(query, context) is entered
ExecuteQuery(p, query_len, context) ==
    /\ pc[p] = "idle"
    /\ nQueries < MaxQueries
    /\ nQueries' = nQueries + 1
    /\ orch' = [orch EXCEPT ![p] = [NoOrchFrame EXCEPT
                   !.user_id = Get(context, "user_id", "None"),
                   !.tenant_id = Get(context, "tenant_id", "default"),
                   !.gemini_api_key = Get(context, "gemini_api_key", ""),
                   !.prompt_len = PLAN_PREFIX_LEN + query_len]]
    /\ pc' = [pc EXCEPT ![p] = "get_context"]
    /\ UNCHANGED <<clock, env, apart, _usage, _lock, daily_budgets,
                   usage_cache, lim, rt, winAdmitted, lastAdmitAt>>

\* _get_relevant_context(query, user_id): the snippets, [] without a user
\* and [] when the vector store fails (logged only)
RelevantContext(user_id) ==
    IF user_id = "None" THEN << >>
    ELSE IF memory_up THEN <<"snippet">> ELSE << >>

\* the exception re-raised by _execute_plan is not caught
OnException_Reraise(p) == [pc |-> "raised", envelope |-> NoEnvelope]

\* `except Exception as e` of execute_query: where control goes and what the
\* caller gets
OnException(p) == [pc |-> "done", envelope |-> DEGRADED]

\* the memory helpers letting the store's exception through
OnMemoryError_Raised == "raised"

\* `except Exception` of _get_relevant_context and of _store_result: the
\* error is logged and the helper returns
OnMemoryError == "logged"

\* a call of the vector or session store on behalf of this query fails
MemoryFails(p) == orch[p].user_id # "None" /\ ~memory_up

\* _get_relevant_context, then _create_execution_plan, which does not read
\* the context it is given
GetContext(p) ==
    /\ pc[p] = "get_context"
    /\ RelevantContext(orch[p].user_id) \in {<< >>, <<"snippet">>}
    /\ IF MemoryFails(p) /\ OnMemoryError = "raised"
         THEN /\ orch' = [orch EXCEPT ![p].envelope = OnException(p).envelope]
              /\ pc' = [pc EXCEPT ![p] = OnException(p).pc]
         ELSE /\ orch' = orch
              /\ pc' = [pc EXCEPT ![p] = "execute_plan"]
    /\ UNCHANGED <<clock, env, apart, _usage, _lock, daily_budgets,
                   usage_cache, lim, rt, winAdmitted, lastAdmitAt, nQueries>>

\* _execute_plan up to the call of token_budget_limiter.allow
ExecutePlan(p) ==
    /\ pc[p] = "execute_plan"
    /\ LET estimated_tokens == estimate_tokens(orch[p].prompt_len) + payload_max_tokens
       IN /\ orch' = [orch EXCEPT ![p].estimated_tokens = estimated_tokens]
          /\ lim' = [lim EXCEPT ![p] = [NoLimFrame EXCEPT
                        !.tenant_id = orch[p].tenant_id,
                        !.tokens = estimated_tokens,
                        !.limit = settings.MAX_TOKENS_PER_MIN,
                        !.caller = "orch"]]
    /\ pc' = [pc EXCEPT ![p] = "allow_now"]
    /\ UNCHANGED <<clock, env, apart, _usage, _lock, daily_budgets,
                   usage_cache, rt, winAdmitted, lastAdmitAt, nQueries>>

\* the payload _execute_plan builds from the plan
Payload(p) ==
    [prompt_len |-> orch[p].prompt_len, temperature |-> 50,
     max_tokens |-> payload_max_tokens]

\* what route_request reads of the context execute_query was given
PlanContext(p) ==
    IF orch[p].gemini_api_key = "" THEN << >>
    ELSE [gemini_api_key |-> orch[p].gemini_api_key]

\* the result of allow ignored
TokenGate_Ignored(p) == TRUE

\* `if not token_budget_limiter.allow(...)`: the token gate is open
TokenGate(p) == lim[p].result

\* another execution of the tenant has passed check_budget and has not yet
\* come back from update_usage
InFlight(q, tenant_id) ==
    /\ orch[q].tenant_id = tenant_id
    /\ orch[q].budget_ok
    /\ ~orch[q].billed
    /\ pc[q] \in {"route_loop", "retry_loop", "retry_sleep", "route_ret", "update_usage"}

\* a cost gate that holds the estimate of an execution in flight against the
\* allowance
CostGate_Reserving(p, estimated_cost) ==
    check_budget(orch[p].tenant_id,
                 IF \E q \in Procs \ {p} : InFlight(q, orch[p].tenant_id)
                   THEN estimated_cost + estimated_cost ELSE estimated_cost)

\* `if not cost_optimizer.check_budget(...)`: the cost gate is open
CostGate(p, estimated_cost) == check_budget(orch[p].tenant_id, estimated_cost)

\* allow has returned: the token gate, then model selection and the cost
\* gate, then the router is entered
Gates(p) ==
    /\ pc[p] = "allow_ret"
    /\ lim[p].caller = "orch"
    /\ LET selected_model == select_optimal_model(DEFAULT_MAX_BUDGET, "medium")
           estimated_cost == estimate_cost(selected_model, orch[p].estimated_tokens)
           \* history: what allow returned, what check_budget says of this query
           admitted == lim[p].result
           budget_ok == check_budget(orch[p].tenant_id, estimated_cost)
       IN IF ~TokenGate(p)
            THEN /\ orch' = [orch EXCEPT ![p].result = TOKEN_DENIED,
                                         ![p].stopped_by = "token",
                                         ![p].admitted = admitted,
                                         ![p].budget_ok = FALSE]
                 /\ pc' = [pc EXCEPT ![p] = "store_result"]
                 /\ rt' = rt
            ELSE IF ~CostGate(p, estimated_cost)
            THEN /\ orch' = [orch EXCEPT ![p].result = COST_DENIED,
                                         ![p].stopped_by = "cost",
                                         ![p].estimated_cost = estimated_cost,
                                         ![p].admitted = admitted,
                                         ![p].budget_ok = budget_ok]
                 /\ pc' = [pc EXCEPT ![p] = "store_result"]
                 /\ rt' = rt
            ELSE /\ orch' = [orch EXCEPT ![p].estimated_cost = estimated_cost,
                                         ![p].admitted = admitted,
                                         ![p].budget_ok = budget_ok]
                 /\ rt' = [rt EXCEPT ![p] = [NoRouteFrame EXCEPT
                              !.caller = "orch", !.idx = 1,
                              !.payload = PayloadAtEntry(Payload(p), PlanContext(p)),
                              !.payload_in = Payload(p)]]
                 /\ pc' = [pc EXCEPT ![p] = "route_loop"]
    /\ lim' = [lim EXCEPT ![p] = NoLimFrame]
    /\ UNCHANGED <<clock, env, apart, _usage, _lock, daily_budgets,
                   usage_cache, winAdmitted, lastAdmitAt, nQueries>>

\* route_request has returned; update_usage reads the tenant's usage
UpdateUsageRead(p) ==
    /\ pc[p] = "route_ret"
    /\ rt[p].caller = "orch"
    /\ orch' = [orch EXCEPT ![p].current = Get(usage_cache, orch[p].tenant_id, 0),
                            ![p].result = rt[p].result,
                            ![p].stopped_by =
                                IF Get(rt[p].result, "error", "") = "LLM_ROUTING_FAILED"
                                  THEN "routing" ELSE ""]
    /\ rt' = [rt EXCEPT ![p] = NoRouteFrame]
    /\ pc' = [pc EXCEPT ![p] = "update_usage"]
    /\ UNCHANGED <<clock, env, apart, _usage, _lock, daily_budgets,
                   usage_cache, lim, winAdmitted, lastAdmitAt, nQueries>>

\* the cost update_usage is called with
BilledCost(p) == Get(orch[p].result, "estimated_cost", orch[p].estimated_cost)

\* update_usage writes current + cost; _execute_plan returns its dict
UpdateUsageWrite(p) ==
    /\ pc[p] = "update_usage"
    /\ usage_cache' = Put(usage_cache, orch[p].tenant_id,
                          NewUsage(orch[p].current, BilledCost(p)))
    /\ orch' = [orch EXCEPT ![p].result = PlanResult(orch[p].result),
                            ![p].billed = TRUE,
                            ![p].current = 0]
    /\ pc' = [pc EXCEPT ![p] = "store_result"]
    /\ UNCHANGED <<clock, env, apart, _usage, _lock, daily_budgets,
                   lim, rt, winAdmitted, lastAdmitAt, nQueries>>

\* _store_result (nothing without a user; a failing store is only logged),
\* then the envelope of the success path is returned
StoreResult(p) ==
    /\ pc[p] = "store_result"
    /\ IF MemoryFails(p) /\ OnMemoryError = "raised"
         THEN /\ orch' = [orch EXCEPT ![p].envelope = OnException(p).envelope]
              /\ pc' = [pc EXCEPT ![p] = OnException(p).pc]
         ELSE /\ orch' = [orch EXCEPT ![p].envelope =
                              Envelope(orch[p].result, Plan(orch[p].prompt_len))]
              /\ pc' = [pc EXCEPT ![p] = "done"]
    /\ UNCHANGED <<clock, env, apart, _usage, _lock, daily_budgets,
                   usage_cache, lim, rt, winAdmitted, lastAdmitAt, nQueries>>

\* where an exception no inner handler takes can strike inside the try of
\* execute_query: planning, the limiter's critical section, model selection
\* and the ledger, the router outside its own try, update_usage
FaultPoints ==
    {"execute_plan", "allow_read", "allow_check", "allow_ret", "route_loop",
     "route_ret", "update_usage"}

\* an exception strikes: a with block gives the lock back, _execute_plan logs
\* and re-raises, execute_query handles it
Fault(p) ==
    /\ pc[p] \in FaultPoints
    /\ pc[p] \in {"allow_read", "allow_check", "allow_ret"} => lim[p].caller = "orch"
    /\ pc[p] \in {"route_loop", "route_ret"} => rt[p].caller = "orch"
    /\ _lock' = IF _lock = p THEN NoHolder ELSE _lock
    /\ orch' = [orch EXCEPT ![p].envelope = OnException(p).envelope,
                            ![p].faulted = TRUE]
    /\ lim' = [lim EXCEPT ![p] = NoLimFrame]
    /\ rt' = [rt EXCEPT ![p] = NoRouteFrame]
    /\ pc' = [pc EXCEPT ![p] = OnException(p).pc]
    /\ UNCHANGED <<clock, env, apart, _usage, daily_budgets,
                   usage_cache, winAdmitted, lastAdmitAt, nQueries>>

\* the caller has the envelope
Finish(p) ==
    /\ pc[p] = "done"
    /\ orch' = [orch EXCEPT ![p] = NoOrchFrame]
    /\ pc' = [pc EXCEPT ![p] = "idle"]
    /\ UNCHANGED <<clock, env, apart, _usage, _lock, daily_budgets,
                   usage_cache, lim, rt, winAdmitted, lastAdmitAt, nQueries>>

OrchStep(p) ==
    \/ GetContext(p)
    \/ ExecutePlan(p)
    \/ Gates(p)
    \/ UpdateUsageRead(p)
    \/ UpdateUsageWrite(p)
    \/ StoreResult(p)
    \/ Fault(p)
    \/ Finish(p)

(***************************************************************************)
(* core/cost_controller.py: CostOptimizer called on its own                *)
(***************************************************************************)
\* the costs the ledger is called with: nothing, what is left of the default
\* allowance after NearlySpent, and the estimate of an unknown model
LedgerCosts == {0, DEFAULT_DAILY_BUDGET - NearlySpent, UNKNOWN_MODEL_COST}

NoLedgerFrame ==
    [op |-> "", tenant_id |-> "", cost |-> 0, current |-> 0, result |-> FALSE,
     \* history: the ledger when the call was entered, and whether another
     \* call of update_usage ran while this one did
     before |-> << >>, overlapped |-> FALSE]

\* another context is inside update_usage
UpdateInProgress(p) ==
    \E q \in Procs \ {p} : pc[q] \in {"ledger_read", "ledger_write"}

\* cost_optimizer.check_budget(tenant_id, requested_cost): the whole call
CheckBudgetCall(p, tenant_id, requested_cost) ==
    /\ pc[p] = "idle"
    /\ nCalls < MaxCalls
    /\ nCalls' = nCalls + 1
    /\ led' = [led EXCEPT ![p] = [NoLedgerFrame EXCEPT
                  !.op = "check_budget", !.tenant_id = tenant_id,
                  !.cost = requested_cost,
                  !.result = check_budget(tenant_id, requested_cost),
                  !.before = usage_cache]]
    /\ pc' = [pc EXCEPT ![p] = "ledger_ret"]
    /\ UNCHANGED <<clock, env, fn, adState, rlState, _usage, _lock, daily_budgets, usage_cache,
                   lim, rt, orch, winAdmitted, lastAdmitAt, nQueries>>

\* cost_optimizer.update_usage(tenant_id, cost) is entered
UpdateUsageCall(p, tenant_id, cost) ==
    /\ pc[p] = "idle"
    /\ nCalls < MaxCalls
    /\ nCalls' = nCalls + 1
    /\ led' = [q \in Procs |->
                  IF q = p
                    THEN [NoLedgerFrame EXCEPT
                            !.op = "update_usage", !.tenant_id = tenant_id,
                            !.cost = cost, !.before = usage_cache,
                            !.overlapped = UpdateInProgress(p)]
                    ELSE IF pc[q] \in {"ledger_read", "ledger_write"}
                    THEN [led[q] EXCEPT !.overlapped = TRUE]
                    ELSE led[q]]
    /\ pc' = [pc EXCEPT ![p] = "ledger_read"]
    /\ UNCHANGED <<clock, env, fn, adState, rlState, _usage, _lock, daily_budgets, usage_cache,
                   lim, rt, orch, winAdmitted, lastAdmitAt, nQueries>>

\* current = self.usage_cache.get(tenant_id, 0.0)
LedgerRead(p) ==
    /\ pc[p] = "ledger_read"
    /\ led' = [led EXCEPT ![p].current = Get(usage_cache, led[p].tenant_id, 0)]
    /\ pc' = [pc EXCEPT ![p] = "ledger_write"]
    /\ UNCHANGED <<clock, env, fn, adState, rlState, _usage, _lock, daily_budgets, usage_cache,
                   lim, rt, orch, winAdmitted, lastAdmitAt, nQueries, nCalls>>

\* self.usage_cache[tenant_id] = current + cost
LedgerWrite(p) ==
    /\ pc[p] = "ledger_write"
    /\ usage_cache' = Put(usage_cache, led[p].tenant_id,
                          NewUsage(led[p].current, led[p].cost))
    /\ pc' = [pc EXCEPT ![p] = "ledger_ret"]
    /\ UNCHANGED <<clock, env, fn, adState, rlState, _usage, _lock, daily_budgets,
                   lim, rt, orch, winAdmitted, lastAdmitAt, nQueries, led, nCalls>>

\* the caller has the result of the ledger call
LedgerReturn(p) ==
    /\ pc[p] = "ledger_ret"
    /\ led' = [led EXCEPT ![p] = NoLedgerFrame]
    /\ pc' = [pc EXCEPT ![p] = "idle"]
    /\ UNCHANGED <<clock, env, fn, adState, rlState, _usage, _lock, daily_budgets, usage_cache,
                   lim, rt, orch, winAdmitted, lastAdmitAt, nQueries, nCalls>>

NextLedger ==
    \/ \E p \in Procs, t \in Tenants, c \in LedgerCosts : CheckBudgetCall(p, t, c)
    \/ \E p \in Procs, t \in Tenants, c \in LedgerCosts : UpdateUsageCall(p, t, c)
    \/ \E p \in Procs : LedgerRead(p)
    \/ \E p \in Procs : LedgerWrite(p)
    \/ \E p \in Procs : LedgerReturn(p)

(***************************************************************************)
(* core/rate_limit.py: RateLimiter                                         *)
(***************************************************************************)
RL_WINDOW_SECONDS == 60      \* window_seconds: int = 60

\* the keys requests are counted under
Keys == {"login:u1", "query:u1"}
\* the limit argument of allow_request: left out (None), or a small one
RequestLimits == {None, 1, 2}

NoRlFrame ==
    [key |-> "", limit |-> 0, count |-> 0, result |-> FALSE,
     \* history of this allow_request: which check decided, whether a store
     \* operation failed, whether an exception was handled, the number of this
     \* call among the calls on its key, the number of this admission among
     \* the fallback's admissions, whether it ran beside another call on its
     \* key, whether it began after the window of its key had elapsed
     decided_by |-> "", store_failed |-> FALSE, raised |-> FALSE,
     ordinal |-> 0, rank |-> 0, sequential |-> TRUE, late |-> FALSE,
     \* self is a RateLimiter() made for this call alone
     fresh |-> FALSE]

\* a key of the store whose expiry has not passed
Live(key) ==
    /\ key \in DOMAIN redis_store
    /\ \/ redis_store[key].expires_at = None
       \/ clock < redis_store[key].expires_at

\* another context is inside allow_request on the same key
OtherOnKey(p, key) ==
    \E q \in Procs \ {p} :
        /\ pc[q] \in {"rl_incr", "rl_expire", "rl_mem_read", "rl_mem_write"}
        /\ rl[q].key = key

\* the handlers answering False
FailOpen_Closed == FALSE

\* `return True` of the two exception handlers: fail open
FailOpen == TRUE

\* the fallback admitting the call that reaches the limit plus one
MemoryAdmits_AtLimit(count, limit) == count <= limit

\* _memory_check: `return count < limit`, count read before the increment
MemoryAdmits(count, limit) == count < limit

\* _redis_check: `return count <= limit`, count as returned by INCR
RedisAdmits(count, limit) == count <= limit

\* RateLimiter.allow_request(key, limit) is entered on an instance, a shared
\* one or one made for the call: the default limit, then the dispatch on
\* self.redis_client
EnterAllowRequest(p, key, limit, fresh) ==
    /\ pc[p] = "idle"
    /\ nCalls < MaxCalls
    /\ nCalls' = nCalls + 1
    /\ rl' = [q \in Procs |->
                 IF q = p
                   THEN [NoRlFrame EXCEPT
                           !.key = key,
                           !.limit = IF limit = None
                                       THEN settings.MAX_REQUESTS_PER_MINUTE
                                       ELSE limit,
                           !.fresh = fresh,
                           !.ordinal = rlStarted[key] + 1,
                           !.sequential = ~OtherOnKey(p, key),
                           !.late = /\ rlArmedAt[key] # Never
                                    /\ clock >= rlArmedAt[key] + RL_WINDOW_SECONDS]
                   ELSE IF pc[q] \in {"rl_incr", "rl_expire", "rl_mem_read", "rl_mem_write"}
                           /\ rl[q].key = key
                   THEN [rl[q] EXCEPT !.sequential = FALSE]
                   ELSE rl[q]]
    /\ rlStarted' = [rlStarted EXCEPT ![key] = @ + 1]
    /\ rlClean' = [rlClean EXCEPT ![key] = @ /\ ~OtherOnKey(p, key)]
    /\ pc' = [pc EXCEPT ![p] = IF redis_client # "None" THEN "rl_incr" ELSE "rl_mem_read"]
    /\ UNCHANGED <<clock, env, fn, adState, led, _usage, _lock, daily_budgets, usage_cache,
                   lim, rt, orch, winAdmitted, lastAdmitAt, nQueries,
                   redis_client, redis_up, redis_store, memory_cache,
                   rlWrites, rlAdmitted, rlArmedAt>>

\* allow_request(key, limit) on the instance the callers share
AllowRequestCall(p, key, limit) == EnterAllowRequest(p, key, limit, FALSE)

\* the default of the module-level function: limit: int = 100
LEGACY_DEFAULT_LIMIT == 100

\* the module-level allow_request(key, limit=100): limiter = RateLimiter();
\* return limiter.allow_request(key, limit)
LegacyAllowRequest(p, key, limit) ==
    EnterAllowRequest(p, key, IF limit = None THEN LEGACY_DEFAULT_LIMIT ELSE limit, TRUE)

\* the memory_cache of the instance of the call: the dict of the shared
\* instance, or the empty dict __init__ gave the instance made for the call
CacheOf(p) == IF rl[p].fresh THEN << >> ELSE memory_cache

\* the window of a key opens with the first increment ever and with the
\* first one after the previous window has elapsed
OpensWindow(key) ==
    \/ rlArmedAt[key] = Never
    \/ clock >= rlArmedAt[key] + RL_WINDOW_SECONDS

\* _redis_check: count = int(client.incr(key)); with a count above 1 the
\* answer follows at once; a failing store is handled with `return True`
RedisIncr(p) ==
    /\ pc[p] = "rl_incr"
    /\ LET key == rl[p].key
           count == IF Live(key) THEN redis_store[key].count + 1 ELSE 1
           expires_at == IF Live(key) THEN redis_store[key].expires_at ELSE None
       IN IF redis_up
            THEN /\ redis_store' = Put(redis_store, key,
                                       [count |-> count, expires_at |-> expires_at])
                 /\ IF count = 1
                      THEN /\ rl' = [rl EXCEPT ![p].count = count]
                           /\ pc' = [pc EXCEPT ![p] = "rl_expire"]
                           /\ rlArmedAt' = rlArmedAt
                      ELSE /\ rl' = [rl EXCEPT ![p].count = count,
                                               ![p].result = RedisAdmits(count, rl[p].limit),
                                               ![p].decided_by = "redis"]
                           /\ pc' = [pc EXCEPT ![p] = "rl_ret"]
                           /\ rlArmedAt' = IF OpensWindow(key)
                                             THEN [rlArmedAt EXCEPT ![key] = clock]
                                             ELSE rlArmedAt
                 /\ rlClean' = rlClean
            ELSE /\ redis_store' = redis_store
                 /\ rl' = [rl EXCEPT ![p].result = FailOpen,
                                     ![p].decided_by = "handler",
                                     ![p].store_failed = TRUE,
                                     ![p].raised = TRUE]
                 /\ pc' = [pc EXCEPT ![p] = "rl_ret"]
                 /\ rlClean' = [rlClean EXCEPT ![key] = FALSE]
                 /\ rlArmedAt' = rlArmedAt
    /\ UNCHANGED <<clock, env, fn, adState, led, nCalls, _usage, _lock, daily_budgets, usage_cache,
                   lim, rt, orch, winAdmitted, lastAdmitAt, nQueries,
                   redis_client, redis_up, memory_cache,
                   rlStarted, rlWrites, rlAdmitted>>

\* _redis_check: `if count == 1: client.expire(key, window)`, then the answer
RedisExpire(p) ==
    /\ pc[p] = "rl_expire"
    /\ LET key == rl[p].key
       IN /\ IF redis_up
               THEN /\ redis_store' =
                         IF Live(key)
                           THEN Put(redis_store, key,
                                    [redis_store[key] EXCEPT
                                        !.expires_at = clock + RL_WINDOW_SECONDS])
                           ELSE redis_store
                    /\ rl' = [rl EXCEPT ![p].result = RedisAdmits(rl[p].count, rl[p].limit),
                                        ![p].decided_by = "redis"]
                    /\ rlClean' = rlClean
               ELSE /\ redis_store' = redis_store
                    /\ rl' = [rl EXCEPT ![p].result = FailOpen,
                                        ![p].decided_by = "handler",
                                        ![p].store_failed = TRUE,
                                        ![p].raised = TRUE]
                    /\ rlClean' = [rlClean EXCEPT ![key] = FALSE]
          /\ rlArmedAt' = IF OpensWindow(key)
                            THEN [rlArmedAt EXCEPT ![key] = clock]
                            ELSE rlArmedAt
    /\ pc' = [pc EXCEPT ![p] = "rl_ret"]
    /\ UNCHANGED <<clock, env, fn, adState, led, nCalls, _usage, _lock, daily_budgets, usage_cache,
                   lim, rt, orch, winAdmitted, lastAdmitAt, nQueries,
                   redis_client, redis_up, memory_cache,
                   rlStarted, rlWrites, rlAdmitted>>

\* _memory_check: count = self.memory_cache.get(key, 0)
MemoryRead(p) ==
    /\ pc[p] = "rl_mem_read"
    /\ rl' = [rl EXCEPT ![p].count = Get(CacheOf(p), rl[p].key, 0)]
    /\ pc' = [pc EXCEPT ![p] = "rl_mem_write"]
    /\ UNCHANGED <<clock, env, fn, adState, led, nCalls, _usage, _lock, daily_budgets, usage_cache,
                   lim, rt, orch, winAdmitted, lastAdmitAt, nQueries,
                   redis_client, redis_up, redis_store, memory_cache,
                   rlStarted, rlWrites, rlAdmitted, rlClean, rlArmedAt>>

\* _memory_check: self.memory_cache[key] = count + 1; return count < limit
MemoryWrite(p) ==
    /\ pc[p] = "rl_mem_write"
    /\ LET key == rl[p].key
           admits == MemoryAdmits(rl[p].count, rl[p].limit)
           rank == IF admits THEN rlAdmitted[key] + 1 ELSE rlAdmitted[key]
       IN \* the dict of an instance made for the call goes with the instance
          /\ memory_cache' = IF rl[p].fresh THEN memory_cache
                              ELSE Put(memory_cache, key, rl[p].count + 1)
          /\ rl' = [rl EXCEPT ![p].result = admits,
                              ![p].decided_by = "memory",
                              ![p].rank = rank]
          /\ rlWrites' = [rlWrites EXCEPT ![key] = @ + 1]
          /\ rlAdmitted' = [rlAdmitted EXCEPT ![key] = rank]
          /\ rlArmedAt' = IF OpensWindow(key)
                            THEN [rlArmedAt EXCEPT ![key] = clock]
                            ELSE rlArmedAt
    /\ pc' = [pc EXCEPT ![p] = "rl_ret"]
    /\ UNCHANGED <<clock, env, fn, adState, led, nCalls, _usage, _lock, daily_budgets, usage_cache,
                   lim, rt, orch, winAdmitted, lastAdmitAt, nQueries,
                   redis_client, redis_up, redis_store,
                   rlStarted, rlClean>>

\* an unexpected error inside _memory_check (a key that cannot be hashed, a
\* limit that cannot be compared): `except Exception` of allow_request
MemoryFault(p) ==
    /\ pc[p] \in {"rl_mem_read", "rl_mem_write"}
    /\ rl' = [rl EXCEPT ![p].result = FailOpen,
                        ![p].decided_by = "handler",
                        ![p].raised = TRUE]
    /\ rlClean' = [rlClean EXCEPT ![rl[p].key] = FALSE]
    /\ pc' = [pc EXCEPT ![p] = "rl_ret"]
    /\ UNCHANGED <<clock, env, fn, adState, led, nCalls, _usage, _lock, daily_budgets, usage_cache,
                   lim, rt, orch, winAdmitted, lastAdmitAt, nQueries,
                   redis_client, redis_up, redis_store, memory_cache,
                   rlStarted, rlWrites, rlAdmitted, rlArmedAt>>

\* the caller has the boolean
AllowRequestReturn(p) ==
    /\ pc[p] = "rl_ret"
    /\ rl' = [rl EXCEPT ![p] = NoRlFrame]
    /\ pc' = [pc EXCEPT ![p] = "idle"]
    /\ UNCHANGED <<clock, env, fn, adState, led, nCalls, _usage, _lock, daily_budgets, usage_cache,
                   lim, rt, orch, winAdmitted, lastAdmitAt, nQueries,
                   redis_client, redis_up, redis_store, memory_cache,
                   rlStarted, rlWrites, rlAdmitted, rlClean, rlArmedAt>>

\* the shared store goes away or comes back
StoreFlip ==
    /\ redis_client # "None"
    /\ redis_up' = ~redis_up
    /\ UNCHANGED <<clock, env, fn, adState, led, nCalls, _usage, _lock, daily_budgets, usage_cache,
                   pc, lim, rt, orch, winAdmitted, lastAdmitAt, nQueries,
                   redis_client, redis_store, memory_cache, rl,
                   rlStarted, rlWrites, rlAdmitted, rlClean, rlArmedAt>>

\* time passes while the rate limiter is in use: no key with a call behind
\* it is inside its first window any more
RateTick ==
    /\ clock + TickSeconds <= MaxClock
    /\ clock' = clock + TickSeconds
    /\ rlClean' = [k \in Keys |-> rlClean[k] /\ rlStarted[k] = 0]
    /\ UNCHANGED <<env, fn, adState, led, nCalls, _usage, _lock, daily_budgets, usage_cache,
                   pc, lim, rt, orch, winAdmitted, lastAdmitAt, nQueries,
                   redis_client, redis_up, redis_store, memory_cache, rl,
                   rlStarted, rlWrites, rlAdmitted, rlArmedAt>>

NextRateLimiter ==
    \/ RateTick
    \/ StoreFlip
    \/ \E p \in Procs, k \in Keys, n \in RequestLimits : AllowRequestCall(p, k, n)
    \/ \E p \in Procs : RedisIncr(p)
    \/ \E p \in Procs : RedisExpire(p)
    \/ \E p \in Procs : MemoryRead(p)
    \/ \E p \in Procs : MemoryWrite(p)
    \/ \E p \in Procs : MemoryFault(p)
    \/ \E p \in Procs : AllowRequestReturn(p)

\* callers of the module-level allow_request
NextLegacy ==
    \/ RateTick
    \/ \E p \in Procs, k \in Keys, n \in RequestLimits : LegacyAllowRequest(p, k, n)
    \/ \E p \in Procs : MemoryRead(p)
    \/ \E p \in Procs : MemoryWrite(p)
    \/ \E p \in Procs : MemoryFault(p)
    \/ \E p \in Procs : AllowRequestReturn(p)

(***************************************************************************)
(* llm/providers/gemma.py, llm/providers/openai.py: run(payload)           *)
(***************************************************************************)
Providers == {"gemma", "openai"}

\* how an upstream call ends: with an answer, or with an exception
UpstreamOutcomes == {"ok", "timeout", "rate_limited", "invalid_response", "unknown"}

\* the mock response given the provider name of a real answer
MockResponse_Unmarked(name) ==
    [response |-> "Mock response - API key not configured",
     model |-> IF name = "gemma" THEN "mock-gemma" ELSE "mock-gpt-4",
     tokens_used |-> IF name = "gemma" THEN 80 ELSE 100,
     confidence |-> 50,
     provider |-> IF name = "gemma" THEN "gemini" ELSE "openai"]

\* _mock_response(payload) of the two adapters
MockResponse(name) ==
    [response |-> "Mock response - API key not configured",
     model |-> IF name = "gemma" THEN "mock-gemma" ELSE "mock-gpt-4",
     tokens_used |-> IF name = "gemma" THEN 80 ELSE 100,
     confidence |-> 50,
     provider |-> IF name = "gemma" THEN "gemini" \o "-mock" ELSE "openai" \o "-mock"]

\* the last failure let through to the caller of run
AfterRetries_Raising(name) == [raised |-> "Exception"]

\* `return _mock_response(payload)` of the except branch on the last attempt
AfterRetries(name) == MockResponse(name)

NoAdapterFrame ==
    [name |-> "", override |-> FALSE, attempt |-> 0, result |-> NoResult,
     \* history of this run: upstream calls made, sleeps taken, how the last
     \* upstream call ended, whether the result was built from an answer
     upstream_calls |-> 0, sleeps |-> 0, last_outcome |-> "",
     from_upstream |-> FALSE]

\* gemma: `genai is None or not api_key` with api_key the override of the
\* payload or the setting; openai: `not settings.OPENAI_API_KEY or OpenAI is
\* None`, the payload not consulted
HasCredential(name, override) ==
    IF name = "gemma"
      THEN sdk[name] /\ (override \/ api_key[name])
      ELSE sdk[name] /\ api_key[name]

\* run(payload) is entered: max_retries = settings.LLM_MAX_RETRIES
RunCall(p, name, override) ==
    /\ pc[p] = "idle"
    /\ nCalls < MaxCalls
    /\ nCalls' = nCalls + 1
    /\ ad' = [ad EXCEPT ![p] = [NoAdapterFrame EXCEPT
                 !.name = name, !.override = override]]
    /\ pc' = [pc EXCEPT ![p] = "ad_loop"]
    /\ UNCHANGED <<clock, env, fn, led, rlState, sdk, api_key, _usage, _lock,
                   daily_budgets, usage_cache, lim, rt, orch, winAdmitted,
                   lastAdmitAt, nQueries>>

\* `if attempt < max_retries - 1: time.sleep(2 ** attempt)`, else give up
GivesUp(attempt) == ~(attempt < settings.LLM_MAX_RETRIES - 1)

\* one turn of `for attempt in range(max_retries)`: the mock without a
\* credential, else the upstream call; an answer is returned, an exception
\* is followed by a sleep and the next turn, or by the mock on the last turn;
\* an empty range returns the mock
AdapterTry(p, outcome) ==
    /\ pc[p] = "ad_loop"
    /\ LET f == ad[p]
       IN IF f.attempt >= settings.LLM_MAX_RETRIES
               \/ ~HasCredential(f.name, f.override)
            THEN /\ ad' = [ad EXCEPT ![p].result = MockResponse(f.name)]
                 /\ pc' = [pc EXCEPT ![p] = "ad_ret"]
            ELSE IF outcome = "ok"
            THEN /\ ad' = [ad EXCEPT ![p].result = ProviderResponse(f.name),
                                     ![p].upstream_calls = @ + 1,
                                     ![p].last_outcome = outcome,
                                     ![p].from_upstream = TRUE]
                 /\ pc' = [pc EXCEPT ![p] = "ad_ret"]
            ELSE IF ~GivesUp(f.attempt)
            THEN /\ ad' = [ad EXCEPT ![p].attempt = @ + 1,
                                     ![p].upstream_calls = @ + 1,
                                     ![p].last_outcome = outcome,
                                     ![p].sleeps = @ + 1]
                 /\ pc' = pc
            ELSE /\ ad' = [ad EXCEPT ![p].result = AfterRetries(f.name),
                                     ![p].upstream_calls = @ + 1,
                                     ![p].last_outcome = outcome]
                 /\ pc' = [pc EXCEPT ![p] = "ad_ret"]
    /\ UNCHANGED <<clock, env, fn, led, nCalls, rlState, sdk, api_key, _usage, _lock,
                   daily_budgets, usage_cache, lim, rt, orch, winAdmitted,
                   lastAdmitAt, nQueries>>

\* the caller has the dict
RunReturn(p) ==
    /\ pc[p] = "ad_ret"
    /\ ad' = [ad EXCEPT ![p] = NoAdapterFrame]
    /\ pc' = [pc EXCEPT ![p] = "idle"]
    /\ UNCHANGED <<clock, env, fn, led, nCalls, rlState, sdk, api_key, _usage, _lock,
                   daily_budgets, usage_cache, lim, rt, orch, winAdmitted,
                   lastAdmitAt, nQueries>>

(***************************************************************************)
(* llm/router.py over the provider adapters of LLM_PRIORITY                *)
(***************************************************************************)
\* route_request called with the adapters as shipped behind it
RouteCallShipped(p, payload, context) ==
    /\ pc[p] = "idle"
    /\ nCalls < MaxCalls
    /\ nCalls' = nCalls + 1
    /\ rt' = [rt EXCEPT ![p] = [NoRouteFrame EXCEPT
                 !.caller = "shipped", !.idx = 1,
                 !.payload = PayloadAtEntry(payload, context),
                 !.payload_in = payload]]
    /\ pc' = [pc EXCEPT ![p] = "route_loop"]
    /\ UNCHANGED <<clock, env, fn, led, rlState, adState, _usage, _lock,
                   daily_budgets, usage_cache, lim, orch, winAdmitted,
                   lastAdmitAt, nQueries>>

\* _call_with_retries: `result = provider.run(payload)` enters the adapter of
\* the provider with the payload of the request
RunShipped(p) ==
    /\ pc[p] = "retry_loop"
    /\ rt[p].caller = "shipped"
    /\ ad' = [ad EXCEPT ![p] = [NoAdapterFrame EXCEPT
                 !.name = LLM_PRIORITY[rt[p].idx].name,
                 !.override = ("gemini_api_key" \in DOMAIN rt[p].payload)]]
    /\ pc' = [pc EXCEPT ![p] = "ad_loop"]
    /\ UNCHANGED <<clock, env, fn, led, nCalls, rlState, sdk, api_key, _usage, _lock,
                   daily_budgets, usage_cache, lim, rt, orch, winAdmitted,
                   lastAdmitAt, nQueries>>

\* the adapter is left: an exception takes the retry branch of
\* _call_with_retries (sleep, or raise on the last attempt and on to the next
\* provider), an empty dict raises LLM_EMPTY_RESPONSE in route_request, a
\* dict is given its estimated_cost and returned
RunShippedReturn(p) ==
    /\ pc[p] = "ad_ret"
    /\ rt[p].caller = "shipped"
    /\ LET f == rt[p]
           name == LLM_PRIORITY[f.idx].name
           result == ad[p].result
       IN IF "raised" \in DOMAIN result
            THEN IF LastAttempt(f.attempt)
                   THEN /\ rt' = [rt EXCEPT ![p].runs = @ + 1, ![p].fails = @ + 1,
                                            ![p].exhausted = @ \cup {name},
                                            ![p].idx = NextProvider(f.idx)]
                        /\ pc' = [pc EXCEPT ![p] = "route_loop"]
                   ELSE /\ rt' = [rt EXCEPT ![p].runs = @ + 1, ![p].fails = @ + 1]
                        /\ pc' = [pc EXCEPT ![p] = "retry_sleep"]
          ELSE IF DOMAIN result = {}
            THEN /\ rt' = [rt EXCEPT ![p].runs = @ + 1,
                                     ![p].exhausted = @ \cup {name},
                                     ![p].idx = NextProvider(f.idx)]
                 /\ pc' = [pc EXCEPT ![p] = "route_loop"]
            ELSE /\ rt' = [rt EXCEPT ![p].runs = @ + 1, ![p].won = name,
                                     ![p].result = Put(result, "estimated_cost",
                                                       f.estimated_cost)]
                 /\ pc' = [pc EXCEPT ![p] = "route_ret"]
    /\ UNCHANGED <<clock, env, fn, led, nCalls, rlState, adState, _usage, _lock,
                   daily_budgets, usage_cache, lim, orch, winAdmitted,
                   lastAdmitAt, nQueries>>

\* the caller has the response; the locals of the adapter are gone
RouteReturnShipped(p) ==
    /\ pc[p] = "route_ret"
    /\ rt[p].caller = "shipped"
    /\ rt' = [rt EXCEPT ![p] = NoRouteFrame]
    /\ ad' = [ad EXCEPT ![p] = NoAdapterFrame]
    /\ pc' = [pc EXCEPT ![p] = "idle"]
    /\ UNCHANGED <<clock, env, fn, led, nCalls, rlState, sdk, api_key, _usage, _lock,
                   daily_budgets, usage_cache, lim, orch, winAdmitted,
                   lastAdmitAt, nQueries>>

\* route_request with the adapters behind it; the sleep of
\* _call_with_retries is not among the steps
NextShipped ==
    \/ \E p \in Procs, payload \in Payloads, c \in RouterContexts :
          RouteCallShipped(p, payload, c)
    \/ \E p \in Procs : RouteNext(p)
    \/ \E p \in Procs : RunShipped(p)
    \/ \E p \in Procs, o \in UpstreamOutcomes : AdapterTry(p, o)
    \/ \E p \in Procs : RunShippedReturn(p)
    \/ \E p \in Procs : RouteReturnShipped(p)

NextAdapter ==
    \/ \E p \in Procs, n \in Providers, o \in BOOLEAN : RunCall(p, n, o)
    \/ \E p \in Procs, o \in UpstreamOutcomes : AdapterTry(p, o)
    \/ \E p \in Procs : RunReturn(p)

(***************************************************************************)
(* core/cost_controller.py: the cost functions called on their own         *)
(***************************************************************************)
\* the model names estimate_cost is called with: those of TOKEN_COSTS and
\* "openai", the name the router passes for its second provider
ModelNames == DOMAIN TOKEN_COSTS \cup {"openai"}
TokenCounts == {0, DEFAULT_TOKEN_COUNT, 1008}

\* the budgets and tiers select_optimal_model is called with
Budgets == {0, 1000, 20000, DEFAULT_MAX_BUDGET}
Qualities == {"low", "medium", "high", "premium"}

NoFnFrame ==
    [op |-> "", model |-> "", token_count |-> 0, max_budget |-> 0,
     required_quality |-> "", cost |-> 0, selected |-> ""]

\* estimate_cost(task, model, token_count): the whole call
EstimateCostCall(p, model, token_count) ==
    /\ pc[p] = "idle"
    /\ fn' = [fn EXCEPT ![p] = [NoFnFrame EXCEPT
                 !.op = "estimate_cost", !.model = model,
                 !.token_count = token_count,
                 !.cost = estimate_cost(model, token_count)]]
    /\ pc' = [pc EXCEPT ![p] = "fn_ret"]
    /\ UNCHANGED <<clock, env, led, nCalls, rlState, adState, _usage, _lock,
                   daily_budgets, usage_cache, lim, rt, orch, winAdmitted,
                   lastAdmitAt, nQueries>>

\* select_optimal_model(task, max_budget, required_quality): the whole call
SelectModelCall(p, max_budget, required_quality) ==
    /\ pc[p] = "idle"
    /\ fn' = [fn EXCEPT ![p] = [NoFnFrame EXCEPT
                 !.op = "select_optimal_model", !.max_budget = max_budget,
                 !.required_quality = required_quality,
                 !.selected = select_optimal_model(max_budget, required_quality)]]
    /\ pc' = [pc EXCEPT ![p] = "fn_ret"]
    /\ UNCHANGED <<clock, env, led, nCalls, rlState, adState, _usage, _lock,
                   daily_budgets, usage_cache, lim, rt, orch, winAdmitted,
                   lastAdmitAt, nQueries>>

\* the caller has the value
FnReturn(p) ==
    /\ pc[p] = "fn_ret"
    /\ fn' = [fn EXCEPT ![p] = NoFnFrame]
    /\ pc' = [pc EXCEPT ![p] = "idle"]
    /\ UNCHANGED <<clock, env, led, nCalls, rlState, adState, _usage, _lock,
                   daily_budgets, usage_cache, lim, rt, orch, winAdmitted,
                   lastAdmitAt, nQueries>>

NextCost ==
    \/ Tick
    \/ \E p \in Procs, m \in ModelNames, n \in TokenCounts : EstimateCostCall(p, m, n)
    \/ \E p \in Procs, b \in Budgets, q \in Qualities : SelectModelCall(p, b, q)
    \/ \E p \in Procs : FnReturn(p)

(***************************************************************************)
(* Initial state: the module-level singletons right after import           *)
(***************************************************************************)
Init ==
    /\ clock = 0
    /\ settings \in Settings
    /\ LLM_PRIORITY \in PriorityLists
    /\ memory_up \in BOOLEAN
    /\ _usage = << >>
    /\ _lock = NoHolder
    /\ daily_budgets = << >>
    /\ usage_cache \in InitialLedgers
    /\ pc = [p \in Procs |-> "idle"]
    /\ lim = [p \in Procs |-> NoLimFrame]
    /\ rt = [p \in Procs |-> NoRouteFrame]
    /\ orch = [p \in Procs |-> NoOrchFrame]
    /\ winAdmitted = [t \in Tenants |-> 0]
    /\ lastAdmitAt = [t \in Tenants |-> Never]
    /\ nQueries = 0
    /\ led = [p \in Procs |-> NoLedgerFrame]
    /\ nCalls = 0
    /\ redis_client \in {"None", "client"}
    /\ redis_up = (redis_client # "None")
    /\ redis_store = << >>
    /\ memory_cache = << >>
    /\ rl = [p \in Procs |-> NoRlFrame]
    /\ rlStarted = [k \in Keys |-> 0]
    /\ rlWrites = [k \in Keys |-> 0]
    /\ rlAdmitted = [k \in Keys |-> 0]
    /\ rlClean = [k \in Keys |-> TRUE]
    /\ rlArmedAt = [k \in Keys |-> Never]
    /\ sdk \in [Providers -> BOOLEAN]
    /\ api_key \in [Providers -> BOOLEAN]
    /\ ad = [p \in Procs |-> NoAdapterFrame]
    /\ fn = [p \in Procs |-> NoFnFrame]

LimiterStep(p) ==
    \/ AllowNow(p)
    \/ AllowAcquire(p)
    \/ AllowRead(p)
    \/ AllowCheck(p)
    \/ AllowIncr(p)

NextLimiter ==
    \/ Tick
    \/ \E p \in Procs, t \in Tenants, n \in TokenInputs : AllowCall(p, t, n)
    \/ \E p \in Procs : LimiterStep(p)
    \/ \E p \in Procs : AllowReturn(p)

\* a ledger nobody has spent from
FreshLedger == usage_cache = << >>

\* OPENAI_MAX_TOKENS left at its default
DefaultTokenCap == settings.OPENAI_MAX_TOKENS = DEFAULT_OPENAI_MAX_TOKENS

\* the ledger of a new process, or of one that has nearly spent a tenant's
\* allowance
FreshOrNearlySpent == usage_cache \in { << >>, [t \in {"acme"} |-> NearlySpent] }

\* the installation as shipped: both client libraries, no key
NoKeys ==
    /\ sdk = [n \in Providers |-> TRUE]
    /\ api_key = [n \in Providers |-> FALSE]

\* the shipped configuration of the router, the shared store connected
ShippedRouter ==
    /\ memory_up = TRUE
    /\ redis_client = "client"
    /\ settings.LLM_MAX_RETRIES = DEFAULT_LLM_MAX_RETRIES
    /\ \A i \in 1..Len(LLM_PRIORITY) : LLM_PRIORITY[i].max_cost > 0

\* as shipped, the connection to the shared store failed at import
ShippedRouter_NoStore ==
    /\ memory_up = TRUE
    /\ redis_client = "None"
    /\ settings.LLM_MAX_RETRIES = DEFAULT_LLM_MAX_RETRIES
    /\ \A i \in 1..Len(LLM_PRIORITY) : LLM_PRIORITY[i].max_cost > 0

\* the limiter alone: nothing of the router or the ledger varies
InitLimiter ==
    /\ Init
    /\ DefaultTokenCap
    /\ NoKeys
    /\ ShippedRouter
    /\ FreshLedger

\* concurrent callers of TokenBudgetLimiter.allow
SpecLimiter == InitLimiter /\ [][NextLimiter]_vars

\* the ledger alone, a fresh one or one nearly spent
InitLedger ==
    /\ Init
    /\ DefaultTokenCap
    /\ NoKeys
    /\ ShippedRouter
    /\ FreshOrNearlySpent

\* concurrent callers of CostOptimizer.check_budget and update_usage
SpecLedger == InitLedger /\ [][NextLedger]_vars

\* the rate limiter alone, with or without the connection made at import
InitRateLimiter ==
    /\ Init
    /\ DefaultTokenCap
    /\ NoKeys
    /\ memory_up = TRUE
    /\ settings.LLM_MAX_RETRIES = DEFAULT_LLM_MAX_RETRIES
    /\ \A i \in 1..Len(LLM_PRIORITY) : LLM_PRIORITY[i].max_cost > 0
    /\ FreshLedger

\* concurrent callers of RateLimiter.allow_request on one instance
SpecRateLimiter == InitRateLimiter /\ [][NextRateLimiter]_vars

\* fallback mode: the connection at import failed and r is None
InitLegacy ==
    /\ Init
    /\ DefaultTokenCap
    /\ NoKeys
    /\ ShippedRouter_NoStore
    /\ FreshLedger

\* callers of the module-level allow_request in fallback mode
SpecLegacy == InitLegacy /\ [][NextLegacy]_vars

\* the adapters alone, with and without libraries and keys
InitAdapter ==
    /\ Init
    /\ DefaultTokenCap
    /\ memory_up = TRUE
    /\ redis_client = "client"
    /\ FreshLedger
    /\ \A i \in 1..Len(LLM_PRIORITY) : LLM_PRIORITY[i].max_cost > 0

\* concurrent callers of the provider adapters' run
SpecAdapter == InitAdapter /\ [][NextAdapter]_vars

\* the cost functions alone, beside a ledger fresh or nearly spent
InitCost ==
    /\ Init
    /\ DefaultTokenCap
    /\ NoKeys
    /\ ShippedRouter
    /\ FreshOrNearlySpent

\* callers of estimate_cost and select_optimal_model, time passing
SpecCost == InitCost /\ [][NextCost]_vars

NextRouter ==
    \/ \E p \in Procs, payload \in Payloads, context \in RouterContexts :
          RouteCall(p, payload, context)
    \/ \E p \in Procs : RouterStep(p)
    \/ \E p \in Procs : RouteReturn(p)

\* the router under every priority list and retry setting
InitRouter ==
    /\ Init
    /\ DefaultTokenCap
    /\ NoKeys
    /\ FreshLedger
    /\ memory_up = TRUE
    /\ redis_client = "client"

\* callers of LLMRouter.route_request, under every configuration
SpecRouter == InitRouter /\ [][NextRouter]_vars

Next ==
    \/ Tick
    \/ \E p \in Procs, n \in QueryLens, c \in Contexts : ExecuteQuery(p, n, c)
    \/ \E p \in Procs : OrchStep(p)
    \/ \E p \in Procs : LimiterStep(p)
    \/ \E p \in Procs : RouterStep(p)

\* the ceilings as shipped, or all lowered to 0
ShippedOrZeroCeilings ==
    \/ \A i \in 1..Len(LLM_PRIORITY) : LLM_PRIORITY[i].max_cost > 0
    \/ \A i \in 1..Len(LLM_PRIORITY) : LLM_PRIORITY[i].max_cost = 0

\* the orchestrator with the shipped retry count
InitOrchestrator ==
    /\ Init
    /\ DefaultTokenCap
    /\ NoKeys
    /\ redis_client = "client"
    /\ settings.LLM_MAX_RETRIES = DEFAULT_LLM_MAX_RETRIES
    /\ ShippedOrZeroCeilings
    /\ FreshOrNearlySpent

\* concurrent executions of AgentOrchestrator.execute_query
Spec == InitOrchestrator /\ [][Next]_vars

\* the orchestrator with OPENAI_MAX_TOKENS=500, on a ledger with room for one
\* more bill
InitRace ==
    /\ Init
    /\ NoKeys
    /\ ShippedRouter
    /\ settings.OPENAI_MAX_TOKENS = 500
    /\ usage_cache = [t \in {"acme"} |-> RoomForOne]

SpecRace == InitRace /\ [][Next]_vars

\* execute_query entered while no other execution is under way
ExecuteQueryAlone(p, query_len, context) ==
    /\ \A q \in Procs : pc[q] = "idle"
    /\ ExecuteQuery(p, query_len, context)

NextSequential ==
    \/ Tick
    \/ \E p \in Procs, n \in QueryLens, c \in Contexts : ExecuteQueryAlone(p, n, c)
    \/ \E p \in Procs : OrchStep(p)
    \/ \E p \in Procs : LimiterStep(p)
    \/ \E p \in Procs : RouterStep(p)

\* the orchestrator on a ledger with less than one bill left, with
\* OPENAI_MAX_TOKENS at its default or lowered to 200
InitSequential ==
    /\ Init
    /\ NoKeys
    /\ ShippedRouter
    /\ settings.OPENAI_MAX_TOKENS \in {200, DEFAULT_OPENAI_MAX_TOKENS}
    /\ usage_cache = [t \in {"acme"} |-> AlmostSpent]

\* the router over the adapters, with and without SDKs and keys, with the
\* ceilings as shipped or lowered, with retries or without
InitShipped ==
    /\ Init
    /\ DefaultTokenCap
    /\ FreshLedger
    /\ memory_up = TRUE
    /\ redis_client = "client"

SpecShipped == InitShipped /\ [][NextShipped]_vars

\* executions of execute_query strictly one after another
SpecSequential == InitSequential /\ [][NextSequential]_vars

(***************************************************************************)
(* Properties of the token window limiter (under SpecLimiter)              *)
(***************************************************************************)
\* p leaves TokenBudgetLimiter.allow with its boolean in this step
ReturnsFromAllow(p) ==
    /\ pc[p] \in {"allow_check", "allow_incr"}
    /\ pc'[p] = "allow_ret"

\* C1: for any interleaving of concurrent allow calls on one tenant, the
\* tokens of the calls that returned True within one window never sum to more
\* than the limit, and the record never counts more than the limit either.
C1_NoJointOvershoot ==
    \A t \in Tenants :
        /\ winAdmitted[t] <= settings.MAX_TOKENS_PER_MIN
        /\ t \in DOMAIN _usage => _usage[t].tokens_used <= settings.MAX_TOKENS_PER_MIN

\* Two calls on one tenant overlap: one is past the check and holds the lock,
\* the other waits for it; each fits the window alone, both together do not.
C1_Witness ==
    \E p \in Procs, q \in Procs :
        /\ p # q
        /\ pc[p] = "allow_incr"
        /\ pc[q] = "allow_lock"
        /\ lim[p].tenant_id = lim[q].tenant_id
        /\ LET used == _usage[lim[p].tenant_id].tokens_used IN
             /\ used + lim[p].tokens <= lim[p].limit
             /\ used + lim[q].tokens <= lim[q].limit
             /\ used + lim[p].tokens + lim[q].tokens > lim[p].limit

\* C2: inside one window a call returns True exactly when the tokens admitted
\* so far plus its own stay within the limit, and a denial leaves what was
\* admitted before it as it was.
C2_AdmitWhileWithinLimit ==
    [][\A p \in Procs :
          ReturnsFromAllow(p) =>
            LET t == lim[p].tenant_id IN
              /\ lim'[p].result = (winAdmitted[t] + lim[p].tokens <= lim[p].limit)
              /\ ~lim'[p].result =>
                    /\ winAdmitted'[t] = winAdmitted[t]
                    /\ _usage'[t].tokens_used = _usage[t].tokens_used
                    /\ _usage'[t].tokens_used = winAdmitted[t]]_vars

\* A call is denied after earlier calls of the window were admitted up to
\* exactly the limit, and the record still counts them.
C2_Witness ==
    \E p \in Procs :
        /\ pc[p] = "allow_ret"
        /\ ~lim[p].result
        /\ lim[p].tokens > 0
        /\ winAdmitted[lim[p].tenant_id] = lim[p].limit
        /\ _usage[lim[p].tenant_id].tokens_used = lim[p].limit

\* C3: when at least window_seconds have elapsed since the tenant's last
\* admitted request, a call asking for no more than the limit returns True and
\* leaves the record with tokens_used equal to its own tokens.
C3_WindowReset ==
    [][\A p \in Procs :
          LET t == lim[p].tenant_id IN
            ( /\ ReturnsFromAllow(p)
              /\ lastAdmitAt[t] # Never
              /\ lim[p].now - lastAdmitAt[t] >= window_seconds
              /\ lim[p].tokens <= lim[p].limit )
            => /\ lim'[p].result
               /\ _usage'[t].tokens_used = lim[p].tokens]_vars

\* A call was admitted although the record it found had no room for it: the
\* window had expired, and the record restarted with this call's tokens.
C3_Witness ==
    \E p \in Procs :
        /\ pc[p] = "allow_ret"
        /\ lim[p].result
        /\ lim[p].was_full
        /\ lim[p].tokens > 0
        /\ _usage[lim[p].tenant_id].tokens_used = lim[p].tokens
        /\ _usage[lim[p].tenant_id].window_start >= window_seconds

(***************************************************************************)
(* Properties of the router (under SpecRouter)                             *)
(***************************************************************************)
InRouter(p) == pc[p] \in {"route_loop", "retry_loop", "retry_sleep", "route_ret"}

\* the names of LLM_PRIORITY, and the place of a name in it
Names == {LLM_PRIORITY[i].name : i \in 1..Len(LLM_PRIORITY)}
Rank(name) == CHOOSE i \in 1..Len(LLM_PRIORITY) : LLM_PRIORITY[i].name = name
Elems(seq) == {seq[i] : i \in 1..Len(seq)}

\* C7: when every provider of LLM_PRIORITY was skipped on cost or failed, the
\* router is at the end of its loop or has returned, and what it returns is
\* the LLM_ROUTING_FAILED response (provider none, confidence 0, no tokens).
C7_RouterExhaustion ==
    \A p \in Procs :
        (InRouter(p) /\ Names \subseteq rt[p].skipped \cup rt[p].exhausted)
        => /\ pc[p] \in {"route_loop", "route_ret"}
           /\ pc[p] = "route_loop" => rt[p].idx > Len(LLM_PRIORITY)
           /\ pc[p] = "route_ret" =>
                /\ "error" \in DOMAIN rt[p].result
                /\ rt[p].result.error = "LLM_ROUTING_FAILED"
                /\ rt[p].result.provider = "none"
                /\ rt[p].result.confidence = 0
                /\ rt[p].result.tokens_used = 0

\* One provider was skipped on cost, the other failed every attempt, and the
\* router returned the routing-failure response.
C7_Witness ==
    \E p \in Procs :
        /\ pc[p] = "route_ret"
        /\ rt[p].skipped = {"gemma"}
        /\ rt[p].exhausted = {"openai"}
        /\ rt[p].fails = max_retries
        /\ rt[p].result = ROUTING_FAILED

\* C8: the router hands no provider to _call_with_retries whose estimated cost
\* exceeds its ceiling, and the providers it tries are tried in the order of
\* LLM_PRIORITY.
C8_RouterOrdering ==
    \A p \in Procs :
        LET tried == rt[p].tried IN
          /\ \A k \in 1..Len(tried) :
                estimate_cost(tried[k], DEFAULT_TOKEN_COUNT)
                    <= LLM_PRIORITY[Rank(tried[k])].max_cost
          /\ \A k \in 1..Len(tried), m \in 1..Len(tried) :
                k < m => Rank(tried[k]) < Rank(tried[m])
          /\ \A n \in rt[p].skipped :
                estimate_cost(n, DEFAULT_TOKEN_COUNT) > LLM_PRIORITY[Rank(n)].max_cost

\* The first provider's ceiling is exceeded and the second one's is not: only
\* the second is tried, and it answers.
C8_Witness ==
    \E p \in Procs :
        /\ pc[p] = "route_ret"
        /\ rt[p].skipped = {"gemma"}
        /\ rt[p].tried = <<"openai">>
        /\ rt[p].won = "openai"

\* C9: the router returns the response of the first provider in priority
\* order that answers, annotated with that provider's estimated cost, and
\* tries none after it; a provider that failed is followed by the next one,
\* and no provider skipped on cost or exhausted is tried (again).
C9_RouterFailover ==
    \A p \in Procs :
        LET f == rt[p] IN
          /\ (pc[p] = "route_ret" /\ f.won # "") =>
                /\ f.result = Put(ProviderResponse(f.won), "estimated_cost",
                                  estimate_cost(f.won, DEFAULT_TOKEN_COUNT))
                /\ f.tried[Len(f.tried)] = f.won
                /\ \A i \in 1..(Rank(f.won) - 1) :
                      LLM_PRIORITY[i].name \in f.skipped \cup f.exhausted
                /\ f.won \notin f.exhausted
          /\ \A k \in 1..Len(f.tried), m \in 1..Len(f.tried) :
                k # m => f.tried[k] # f.tried[m]
          /\ Elems(f.tried) \cap f.skipped = {}
          /\ pc[p] = "route_loop" =>
                \A i \in 1..Len(LLM_PRIORITY) :
                    IF i < f.idx
                      THEN LLM_PRIORITY[i].name \in f.skipped \cup f.exhausted
                      ELSE LLM_PRIORITY[i].name \notin Elems(f.tried) \cup f.skipped

\* The first provider failed every attempt and the second one answered.
C9_Witness ==
    \E p \in Procs :
        /\ pc[p] = "route_ret"
        /\ rt[p].tried = <<"gemma", "openai">>
        /\ rt[p].exhausted = {"gemma"}
        /\ rt[p].won = "openai"
        /\ rt[p].result.provider = "openai"
        /\ rt[p].result.estimated_cost = UNKNOWN_MODEL_COST

\* C10: a provider gets at least one and at most max_retries attempts; every
\* failed attempt that is followed by another one is followed by exactly one
\* sleep of 2^attempt plus a jitter in [0, 0.25], the last failed attempt by
\* none; a provider answering after k failures answers after k sleeps.
C10_RetrySchedule ==
    \A p \in Procs :
        LET f == rt[p] IN
          /\ max_retries >= 1
          /\ f.runs <= max_retries
          /\ f.sleeps_ok
          /\ pc[p] = "retry_loop" =>
                /\ f.attempt = f.fails /\ f.runs = f.fails /\ f.nsleeps = f.fails
                /\ f.attempt < max_retries
          /\ pc[p] = "retry_sleep" =>
                /\ f.nsleeps = f.fails - 1 /\ f.runs = f.fails
                /\ f.runs < max_retries
          /\ (pc[p] = "route_ret" /\ f.won # "") =>
                /\ f.runs = f.fails + 1 /\ f.nsleeps = f.fails
          /\ (pc[p] \in {"route_loop", "route_ret"} /\ f.won = "" /\ f.tried # << >>) =>
                /\ f.runs >= 1
                /\ f.runs = f.fails => (f.runs = max_retries /\ f.nsleeps = f.fails - 1)
                /\ f.runs # f.fails => (f.runs = f.fails + 1 /\ f.nsleeps = f.fails)

\* With max_retries = 3 the first provider failed twice and answered on the
\* third attempt, after two sleeps.
C10_Witness ==
    \E p \in Procs :
        /\ pc[p] = "route_ret"
        /\ max_retries = 3
        /\ rt[p].tried = <<"gemma">>
        /\ rt[p].won = "gemma"
        /\ rt[p].fails = 2
        /\ rt[p].nsleeps = 2
        /\ rt[p].result.provider = "gemini"

(***************************************************************************)
(* Properties of the orchestrator (under Spec)                             *)
(***************************************************************************)
\* C4: execute_query never raises to its caller: whatever strikes inside it,
\* the caller gets a dict with an answer and a confidence, and after an
\* unhandled fault the dict of the except branch: confidence 0, the apology
\* and the error detail.
C4_NeverRaises ==
    \A p \in Procs :
        /\ pc[p] # "raised"
        /\ pc[p] = "done" =>
              /\ {"answer", "confidence"} \subseteq DOMAIN orch[p].envelope
              /\ orch[p].faulted =>
                    /\ orch[p].envelope.confidence = 0
                    /\ orch[p].envelope.answer = DEGRADED.answer
                    /\ "error" \in DOMAIN orch[p].envelope

\* A fault struck a query that the limiter had admitted and whose provider
\* had been contacted, and the caller holds the degraded envelope.
C4_Witness ==
    \E p \in Procs :
        /\ pc[p] = "done"
        /\ orch[p].faulted
        /\ orch[p].contacted
        /\ orch[p].envelope = DEGRADED
        /\ _lock # p

\* the error code of each way a query is stopped
ErrorCode(stopped_by) ==
    CASE stopped_by = "token"   -> "TOKEN_BUDGET_EXCEEDED"
      [] stopped_by = "cost"    -> "COST_BUDGET_EXCEEDED"
      [] stopped_by = "routing" -> "LLM_ROUTING_FAILED"

\* C5: a query stopped by the token window, by the cost budget or by routing
\* exhaustion ends with an envelope of confidence 0 that carries the error
\* code of what stopped it.
C5_StoppedEnvelopeHasErrorCode ==
    \A p \in Procs :
        (pc[p] = "done" /\ ~orch[p].faulted /\ orch[p].stopped_by # "") =>
            /\ orch[p].envelope.confidence = 0
            /\ "error" \in DOMAIN orch[p].envelope
            /\ orch[p].envelope.error = ErrorCode(orch[p].stopped_by)

\* C6: the router is entered, a provider contacted and the ledger billed only
\* for a query that the token window limiter admitted and for which
\* check_budget returned True; a query a gate denied contacts no provider and
\* bills nothing.
C6_GatesBeforeRouting ==
    \A p \in Procs :
        /\ ((InRouter(p) /\ rt[p].caller = "orch") \/ orch[p].contacted \/ orch[p].billed
              \/ pc[p] = "update_usage")
            => (orch[p].admitted /\ orch[p].budget_ok)
        /\ orch[p].stopped_by \in {"token", "cost"} =>
              /\ ~orch[p].contacted
              /\ ~orch[p].billed
              /\ ~InRouter(p)

\* A query passed the token gate, was denied by the cost gate, and ended
\* without a provider contacted and without a bill, the ledger as it was.
C6_Witness ==
    \E p \in Procs :
        /\ pc[p] = "done"
        /\ orch[p].stopped_by = "cost"
        /\ orch[p].admitted
        /\ ~orch[p].budget_ok
        /\ ~orch[p].contacted
        /\ ~orch[p].billed
        /\ orch[p].envelope.confidence = 0

\* the usage the ledger holds for a tenant
Usage(cache, tenant_id) == Get(cache, tenant_id, 0)

\* C11: execute_query increases a tenant's ledger usage only when the router
\* returned a successful response, and then by the estimated cost carried in
\* that response (on top of the usage update_usage read); when the router
\* returned the routing-failure response the tenant's usage stays as it was.
C11_LedgerOnSuccessOnly ==
    [][\A t \in Tenants :
          Usage(usage_cache', t) # Usage(usage_cache, t) =>
             \E p \in Procs :
                /\ pc[p] = "update_usage"
                /\ orch[p].tenant_id = t
                /\ "error" \notin DOMAIN orch[p].result
                /\ "estimated_cost" \in DOMAIN orch[p].result
                /\ Usage(usage_cache', t)
                     = orch[p].current + orch[p].result.estimated_cost]_vars

(***************************************************************************)
(* Properties of the budget ledger (under SpecLedger)                      *)
(***************************************************************************)
\* the allowance of a tenant: 100.0 dollars for a tenant never given one
Allowance(tenant_id) == Get(daily_budgets, tenant_id, DEFAULT_DAILY_BUDGET)

\* C12: check_budget(tenant, cost) returns True exactly when the tenant's
\* usage (0 if never seen) plus cost is at most its allowance (100.0 dollars
\* by default), and changes neither ledger dict; update_usage(tenant, cost),
\* run without another update_usage beside it, leaves the ledger as it was at
\* entry except for the tenant's usage, which is the old usage (0 if absent)
\* plus cost.
C12_LedgerContract ==
    [][\A p \in Procs :
          /\ (pc[p] = "idle" /\ pc'[p] = "ledger_ret") =>
                /\ led'[p].result =
                      (Usage(usage_cache, led'[p].tenant_id) + led'[p].cost
                          <= Allowance(led'[p].tenant_id))
                /\ usage_cache' = usage_cache
                /\ daily_budgets' = daily_budgets
          /\ (pc[p] = "ledger_write" /\ pc'[p] = "ledger_ret" /\ ~led[p].overlapped) =>
                /\ usage_cache' = Put(led[p].before, led[p].tenant_id,
                                      Usage(led[p].before, led[p].tenant_id) + led[p].cost)
                /\ \A t \in Tenants \ {led[p].tenant_id} :
                      Usage(usage_cache', t) = Usage(led[p].before, t)
                /\ daily_budgets' = daily_budgets]_vars

\* update_usage has created the record of a tenant never seen, beside the
\* record of a nearly spent tenant, while check_budget has refused that
\* tenant a cost above what is left.
C12_Witness ==
    \E p, q \in Procs :
        /\ pc[p] = "ledger_ret" /\ led[p].op = "update_usage"
        /\ ~led[p].overlapped
        /\ led[p].tenant_id = "default" /\ led[p].cost > 0
        /\ "default" \notin DOMAIN led[p].before
        /\ usage_cache = [default |-> led[p].cost, acme |-> NearlySpent]
        /\ pc[q] = "ledger_ret" /\ led[q].op = "check_budget"
        /\ led[q].tenant_id = "acme" /\ ~led[q].result

(***************************************************************************)
(* Properties of the rate limiter (under SpecRateLimiter)                  *)
(***************************************************************************)
\* C13: on a key with a fresh counter, with calls made one after another in
\* one window and no failure, the n-th allow_request(key, limit) returns True
\* exactly when n <= limit, with the shared store and with the fallback
\* counter alike.
C13_AdmissionLimit ==
    \A p \in Procs :
        (pc[p] = "rl_ret" /\ rlClean[rl[p].key]) =>
            /\ rl[p].decided_by \in {"redis", "memory"}
            /\ rl[p].decided_by = "redis" <=> redis_client # "None"
            /\ rl[p].result = (rl[p].ordinal <= rl[p].limit)

\* The third call in a row on a key is refused by the fallback counter under
\* a limit of 2.
C13_Witness ==
    \E p \in Procs :
        /\ pc[p] = "rl_ret" /\ rlClean[rl[p].key]
        /\ rl[p].decided_by = "memory"
        /\ rl[p].ordinal = 3 /\ rl[p].limit = 2
        /\ ~rl[p].result

\* the counter a key has in the backend in use
CounterOf(key) ==
    IF redis_client # "None"
      THEN IF Live(key) THEN redis_store[key].count ELSE 0
      ELSE Get(memory_cache, key, 0)

\* the counter of the key has an expiry; the fallback dict holds bare counts
ExpiryArmed(key) ==
    /\ redis_client # "None"
    /\ Live(key)
    /\ redis_store[key].expires_at # None

\* C14: with either backend, a call that runs alone on its key, with a limit
\* of at least 1, after window_seconds have passed since the window of the
\* key was opened, is allowed; and no key has a non-zero counter without an
\* expiry, except while the call that made the first increment is about to
\* arm it.
C14_WindowReset ==
    /\ \A p \in Procs :
          (pc[p] = "rl_ret" /\ rl[p].late /\ rl[p].sequential /\ ~rl[p].raised
             /\ rl[p].limit >= 1) => rl[p].result
    /\ \A k \in Keys :
          CounterOf(k) > 0 =>
             \/ ExpiryArmed(k)
             \/ \E p \in Procs : pc[p] = "rl_expire" /\ rl[p].key = k

\* C15: when a store operation fails during allow_request, the decision of
\* that call is taken by the process-local counter of the key.
C15_StoreFailureFallsBack ==
    \A p \in Procs :
        (pc[p] = "rl_ret" /\ rl[p].store_failed) => rl[p].decided_by = "memory"

\* C16: allow_request never raises, and a call whose check raised an error,
\* in the shared-store path or in the fallback path, returns True.
C16_FailOpen ==
    \A p \in Procs :
        /\ pc[p] \in {"rl_incr", "rl_expire", "rl_mem_read", "rl_mem_write", "rl_ret"}
              => rl[p].key \in Keys
        /\ (pc[p] = "rl_ret" /\ rl[p].raised) =>
              /\ rl[p].result = TRUE
              /\ rl[p].decided_by = "handler"

\* An error struck inside the fallback check of a call on a key already at
\* its limit, and the call returned True.
C16_Witness ==
    \E p \in Procs :
        /\ pc[p] = "rl_ret" /\ rl[p].raised /\ ~rl[p].store_failed
        /\ redis_client = "None"
        /\ Get(memory_cache, rl[p].key, 0) >= rl[p].limit
        /\ rl[p].result

\* C17: with the fallback counter in use, under any interleaving of the calls
\* on a key, the counter equals the number of increments written (none is
\* lost) and a call is admitted only as one of the first `limit` admissions.
C17_FallbackAtomic ==
    redis_client = "None" =>
        /\ \A k \in Keys : Get(memory_cache, k, 0) = rlWrites[k]
        /\ \A p \in Procs :
              (pc[p] = "rl_ret" /\ rl[p].decided_by = "memory" /\ rl[p].result)
                 => rl[p].rank <= rl[p].limit

(***************************************************************************)
(* Properties of the provider adapters (under SpecAdapter)                 *)
(***************************************************************************)
\* C18: one invocation of an adapter's run makes exactly one upstream call
\* when a credential is there, and in no case more than one; run never
\* sleeps.
C18_OneUpstreamCall ==
    \A p \in Procs :
        /\ ad[p].upstream_calls <= 1
        /\ ad[p].sleeps = 0
        /\ (pc[p] = "ad_ret" /\ HasCredential(ad[p].name, ad[p].override))
              => ad[p].upstream_calls = 1

\* the failure classes an adapter reports
FailureClasses == {"timeout", "rate_limited", "invalid_response", "unknown"}

\* what _call_with_retries and route_request take as an answer: a dict that
\* is not empty
RouterTakesAsAnswer(result) == DOMAIN result # {}

\* C19: when the upstream call of run failed, what run hands to the router
\* carries the class of the failure and is not taken by the router as an
\* answer.
C19_ClassifiedFailure ==
    \A p \in Procs :
        (pc[p] = "ad_ret" /\ ad[p].last_outcome \in FailureClasses) =>
            /\ "error" \in DOMAIN ad[p].result
            /\ ad[p].result.error \in FailureClasses
            /\ ~RouterTakesAsAnswer(ad[p].result)

\* the provider field carries the mock suffix
EndsInMock(provider) ==
    \E base \in {"gemini", "openai"} : provider = base \o "-mock"

\* C20: without a credential run returns, with no upstream call, a response
\* whose provider field ends in "-mock"; a response built from an upstream
\* answer has a provider field without that suffix, and no other response
\* goes without it.
C20_MockMarking ==
    \A p \in Procs :
        /\ pc[p] \in {"idle", "ad_loop", "ad_ret"}
        /\ pc[p] = "ad_ret" =>
              /\ "provider" \in DOMAIN ad[p].result
              /\ ~HasCredential(ad[p].name, ad[p].override) =>
                    /\ EndsInMock(ad[p].result.provider)
                    /\ ad[p].upstream_calls = 0
              /\ ad[p].from_upstream <=> ~EndsInMock(ad[p].result.provider)

\* Without a key in the settings, run of the Gemini adapter has returned the
\* mock to a caller without an override and a real answer to a caller with
\* one.
C20_Witness ==
    \E p, q \in Procs :
        /\ pc[p] = "ad_ret" /\ ad[p].name = "gemma" /\ ~ad[p].override
        /\ ~api_key["gemma"]
        /\ ad[p].result.provider = "gemini-mock"
        /\ ad[p].upstream_calls = 0
        /\ pc[q] = "ad_ret" /\ ad[q].name = "gemma" /\ ad[q].override
        /\ ad[q].from_upstream
        /\ ad[q].result.provider = "gemini"

(***************************************************************************)
(* Properties of the request payload (under SpecRouter)                    *)
(***************************************************************************)
\* C21: when route_request(payload, context) has returned, the payload dict
\* passed in has the fields and values it had before the call, whatever the
\* context, one with a credential override included.
C21_PayloadImmutable ==
    \A p \in Procs :
        pc[p] = "route_ret" => rt[p].payload = rt[p].payload_in

(***************************************************************************)
(* More properties of the orchestrator (under Spec)                        *)
(***************************************************************************)
\* C22: whether the memory store answers or fails, a query no fault struck
\* went through the limiter and, once admitted, the ledger and the router,
\* and the envelope execute_query returns is made of the outcome of those
\* alone: its answer, confidence and metadata are those of the plan result.
C22_MemoryBestEffort ==
    \A p \in Procs :
        (pc[p] = "done" /\ ~orch[p].faulted) =>
            /\ orch[p].envelope = Envelope(orch[p].result, Plan(orch[p].prompt_len))
            /\ orch[p].stopped_by = "token" => orch[p].result = TOKEN_DENIED
            /\ orch[p].stopped_by = "cost" => orch[p].result = COST_DENIED
            /\ orch[p].stopped_by \in {"", "routing"} =>
                  /\ orch[p].admitted /\ orch[p].budget_ok /\ orch[p].billed
                  /\ orch[p].stopped_by = "" => orch[p].contacted

\* With the memory store failing, the query of a known user was answered by
\* a provider and returned with that provider's confidence.
C22_Witness ==
    \E p \in Procs :
        /\ pc[p] = "done" /\ ~orch[p].faulted
        /\ ~memory_up /\ orch[p].user_id # "None"
        /\ orch[p].contacted
        /\ orch[p].envelope.confidence = 85
        /\ orch[p].envelope.answer = "answer"

TierOf(required_quality) ==
    Get(quality_tiers, required_quality, quality_tiers["medium"])

\* C26: select_optimal_model returns a model of the requested tier (an
\* unknown tier taken as "medium") whose estimated cost is within max_budget
\* and no higher than that of any other model of the tier within budget; it
\* returns "gemma" as the fallback only when no model of the tier is within
\* budget.
C26_CheapestInTier ==
    \A p \in Procs :
        (pc[p] = "fn_ret" /\ fn[p].op = "select_optimal_model") =>
            LET tier == TierOf(fn[p].required_quality)
                within == {i \in 1..Len(tier) :
                             estimate_cost(tier[i], DEFAULT_TOKEN_COUNT) <= fn[p].max_budget}
            IN IF within = {}
                 THEN fn[p].selected = "gemma"
                 ELSE /\ \E i \in within : tier[i] = fn[p].selected
                      /\ \A i \in within :
                            estimate_cost(fn[p].selected, DEFAULT_TOKEN_COUNT)
                               <= estimate_cost(tier[i], DEFAULT_TOKEN_COUNT)

(***************************************************************************)
(* Frame of a denied allow call (under SpecLimiter)                        *)
(***************************************************************************)
\* p takes a step inside TokenBudgetLimiter.allow
StepsInAllow(p) ==
    /\ pc[p] \in {"allow_now", "allow_lock", "allow_read", "allow_check", "allow_incr"}
    /\ pc'[p] # pc[p]

\* C24: a call of allow(T, t, limit) that returns False leaves the record of T
\* as the call found it (same window_start, same tokens_used, and no record
\* created), and no step of a call writes the record of another tenant.
C24_DeniedAllowNoMutation ==
    [][\A p \in Procs :
          LET t == lim[p].tenant_id IN
            /\ StepsInAllow(p) =>
                  \A u \in Tenants \ {t} :
                      /\ (u \in DOMAIN _usage') = (u \in DOMAIN _usage)
                      /\ u \in DOMAIN _usage => _usage'[u] = _usage[u]
            /\ (ReturnsFromAllow(p) /\ ~lim'[p].result) =>
                  /\ (t \in DOMAIN _usage') = (lim[p].before # NoRecord)
                  /\ t \in DOMAIN _usage' => _usage'[t] = lim[p].before]_vars

\* A denied call has replaced a record that counted admitted tokens by a new
\* window that counts none.
C24_DeniedAfterReset ==
    \E p \in Procs :
        /\ pc[p] = "allow_ret"
        /\ ~lim[p].result
        /\ lim[p].before.tokens_used > 0
        /\ _lock = NoHolder
        /\ _usage[lim[p].tenant_id].tokens_used = 0
        /\ _usage[lim[p].tenant_id].window_start = lim[p].now
        /\ lim[p].now > lim[p].before.window_start

(***************************************************************************)
(* Token reservation of a query (under Spec)                               *)
(***************************************************************************)
\* C29: the tokens_used of a tenant's window is the sum of the estimates of
\* the queries allow has admitted in that window, whatever became of them
\* afterwards (denied by check_budget, routing failure, fault): nothing is
\* given back.
C29_TokensNeverRefunded ==
    \A t \in Tenants :
        t \in DOMAIN _usage => _usage[t].tokens_used = winAdmitted[t]

\* A query was admitted by allow and then denied by check_budget without a
\* provider being contacted; the window still counts its estimate.
C29_Witness ==
    \E p \in Procs :
        /\ pc[p] = "done"
        /\ orch[p].stopped_by = "cost"
        /\ orch[p].admitted
        /\ ~orch[p].contacted
        /\ orch[p].estimated_tokens > 0
        /\ clock < _usage[orch[p].tenant_id].window_start + window_seconds
        /\ _usage[orch[p].tenant_id].tokens_used >= orch[p].estimated_tokens
        /\ _usage[orch[p].tenant_id].tokens_used = winAdmitted[orch[p].tenant_id]

(***************************************************************************)
(* The ledger between check_budget and update_usage (under SpecRace)       *)
(***************************************************************************)
\* p comes back from allow admitted and takes the cost gate in this step
TakesCostGate(p) ==
    /\ pc[p] = "allow_ret"
    /\ lim[p].caller = "orch"
    /\ lim[p].result
    /\ pc'[p] \in {"route_loop", "store_result"}

\* C25: check_budget lets an execution through on the usage recorded at that
\* moment alone and records nothing for it, so an execution of the same
\* tenant that passed the gate and has not yet reached update_usage does not
\* count; two concurrent executions can both pass and leave the usage above
\* the allowance (C25_Witness).
C25_LedgerRace ==
    [][\A p \in Procs :
          TakesCostGate(p) =>
            LET t == orch[p].tenant_id IN
              /\ (pc'[p] = "route_loop") <=>
                    (Usage(usage_cache, t) + orch'[p].estimated_cost <= Allowance(t))
              /\ orch'[p].estimated_cost =
                    estimate_cost(select_optimal_model(DEFAULT_MAX_BUDGET, "medium"),
                                  orch[p].estimated_tokens)
              /\ usage_cache' = usage_cache
              /\ daily_budgets' = daily_budgets]_vars

\* Two executions of one tenant have both passed check_budget and both been
\* answered by the first provider and billed; the usage is above the
\* allowance, although after either bill alone the estimate of the other
\* would no longer have passed the check.
C25_Witness ==
    \E p \in Procs, q \in Procs :
        /\ p # q
        /\ orch[p].tenant_id = orch[q].tenant_id
        /\ pc[p] \in {"store_result", "done"} /\ pc[q] \in {"store_result", "done"}
        /\ orch[p].budget_ok /\ orch[q].budget_ok
        /\ orch[p].billed /\ orch[q].billed
        /\ LET t == orch[p].tenant_id
               bill == estimate_cost("gemma", DEFAULT_TOKEN_COUNT)
           IN /\ Usage(usage_cache, t) = RoomForOne + bill + bill
              /\ Usage(usage_cache, t) > Allowance(t)
              /\ RoomForOne + bill <= Allowance(t)
              /\ RoomForOne + bill + orch[q].estimated_cost > Allowance(t)

(***************************************************************************)
(* The ledger without concurrency (under SpecSequential)                   *)
(***************************************************************************)
\* C27: with the executions of execute_query strictly one after another, a
\* tenant's usage in the ledger is never above its allowance, although
\* check_budget is given the estimate for the selected model and the
\* estimated tokens and update_usage the estimate the router made for the
\* provider that answered.
C27_SequentialWithinAllowance ==
    \A t \in Tenants : Usage(usage_cache, t) <= Allowance(t)

(***************************************************************************)
(* The router over the shipped adapters (under SpecShipped)                *)
(***************************************************************************)
\* the providers of LLM_PRIORITY the cost check lets through, by position
Affordable ==
    {i \in 1..Len(LLM_PRIORITY) :
        ~TooExpensive(estimate_cost(LLM_PRIORITY[i].name, DEFAULT_TOKEN_COUNT),
                      LLM_PRIORITY[i].max_cost)}

\* C28: behind the shipped adapters _call_with_retries calls run once, never
\* takes its retry branch and never sleeps; no provider is given up on; the
\* providers before the one that is called were all skipped on cost; and
\* route_request returns the dict of the first provider that is not skipped
\* on cost (the terminal response when all are skipped).
C28_NoRetryBehindAdapters ==
    \A p \in Procs :
        rt[p].caller = "shipped" =>
            /\ pc[p] # "retry_sleep"
            /\ rt[p].fails = 0 /\ rt[p].nsleeps = 0 /\ rt[p].runs <= 1
            /\ rt[p].exhausted = {}
            /\ Len(rt[p].tried) <= 1
            /\ \A i \in 1..Len(LLM_PRIORITY) :
                  (rt[p].tried = <<LLM_PRIORITY[i].name>>) =>
                      /\ i \in Affordable
                      /\ \A j \in 1..(i - 1) :
                            /\ j \notin Affordable
                            /\ LLM_PRIORITY[j].name \in rt[p].skipped
            /\ pc[p] = "route_ret" =>
                  IF Affordable = {} THEN rt[p].result = ROUTING_FAILED
                  ELSE LET first == CHOOSE i \in Affordable : \A j \in Affordable : i <= j
                       IN /\ rt[p].won = LLM_PRIORITY[first].name
                          /\ rt[p].tried = <<LLM_PRIORITY[first].name>>
                          /\ rt[p].result = Put(ad[p].result, "estimated_cost",
                                                rt[p].estimated_cost)
                          /\ "error" \notin DOMAIN rt[p].result

\* Every upstream call of the first provider failed: its adapter retried and
\* slept on its own and returned the mock, which the router took from its
\* first call of run as the answer.
C28_Witness ==
    \E p \in Procs :
        /\ pc[p] = "route_ret"
        /\ rt[p].caller = "shipped"
        /\ rt[p].won = "gemma"
        /\ rt[p].runs = 1 /\ rt[p].fails = 0 /\ rt[p].nsleeps = 0
        /\ ad[p].upstream_calls = settings.LLM_MAX_RETRIES
        /\ ad[p].sleeps = settings.LLM_MAX_RETRIES - 1
        /\ ad[p].sleeps > 0
        /\ ad[p].last_outcome # "ok"
        /\ rt[p].result.provider = "gemini-mock"

(***************************************************************************)
(* The module-level allow_request in fallback mode (under SpecLegacy)      *)
(***************************************************************************)
\* C30: in fallback mode, with calls of the module-level allow_request made
\* one after another on a key and no failure, a call that comes after limit
\* calls on the key returns False.
C30_LegacyEnforcesLimit ==
    \A p \in Procs :
        (pc[p] = "rl_ret" /\ rl[p].fresh /\ rlClean[rl[p].key]) =>
            (rl[p].ordinal > rl[p].limit => ~rl[p].result)

\* The third call in a row on a key under a limit of 2 is allowed, after two
\* calls that were allowed, and the shared dict holds nothing.
C30_AllowedBeyondLimit ==
    \E p \in Procs :
        /\ pc[p] = "rl_ret" /\ rl[p].fresh /\ rlClean[rl[p].key]
        /\ rl[p].decided_by = "memory"
        /\ rl[p].ordinal = 3 /\ rl[p].limit = 2
        /\ rlAdmitted[rl[p].key] = 3
        /\ rl[p].result
        /\ memory_cache = << >>

====
